---- MODULE Spec2Model ----
(***************************************************************************)
(* A model of the per-shard history core of rowhit/cadence:                *)
(*   - the history replicator (service/history/historyReplicator.go),      *)
(*     standby apply / buffer / flush / conflict reset of one run;         *)
(*   - the active timer queue processor (timerQueueActiveProcessor).       *)
(* Each handler is one atomic action: ApplyEvents handles a request under  *)
(* the execution lock (Handle...), and its caller takes the result         *)
(* (Return) before the next request is handled.                            *)
(***************************************************************************)
EXTENDS Integers, Sequences, FiniteSets, TLC

\* ------------------------------------------------------------------ bounds
MaxEventID == 4
MaxVersion == 3
MaxBatchLen == 2
MaxBuffered == 2
MaxResets == 1
MaxFail == 2
NumRuns == 3
NumBatches == 3
MaxBatchVersion == 2
MaxRangeID == 2
MaxTransactionID == 2
MaxPageSize == 2
NumClusters == 2

\* ------------------------------------------------------------- error values
Nil == "nil"
ErrRetryEntityNotExists == "ErrRetryEntityNotExists"
ErrRetryExistingWorkflow == "ErrRetryExistingWorkflow"
ErrRetryBufferEvents == "ErrRetryBufferEvents"
ErrRetryExecutionAlreadyStarted == "ErrRetryExecutionAlreadyStarted"
ErrMissingReplicationInfo == "ErrMissingReplicationInfo"
ErrCorruptedReplicationInfo == "ErrCorruptedReplicationInfo"
\* errors.New("failed to add buffered replication task")
ErrFailedToBuffer == "ErrFailedToBuffer"
\* any error returned by the store (timeout, condition failed, internal)
ErrPersistence == "ErrPersistence"
ErrEntityNotExists == "ErrEntityNotExists"

\* the sentinels that are shared.RetryTaskError and shared.BadRequestError
RetryTaskErrors ==
    {ErrRetryEntityNotExists, ErrRetryExistingWorkflow, ErrRetryBufferEvents,
     ErrRetryExecutionAlreadyStarted}

BadRequestErrors == {ErrMissingReplicationInfo, ErrCorruptedReplicationInfo}

NoMS == [exists |-> FALSE]
EmptyMap == <<>>

VARIABLES
    store,      \* the run's persisted mutable state, NoMS while the run does not exist
    cache,      \* the mutable state cached in the workflowExecutionContext, or NoMS
    uuidCtr,    \* number of uuid.New() run IDs handed out to resets
    call,       \* what the last ApplyEvents call did, until its caller takes it: {} or {record}
    twf,        \* timer processor: the persisted mutable state of the run its tasks belong to
    timerTasks, \* the persisted timer tasks, in creation order
    acked,      \* the tasks completeTimerTask was called for (indices of timerTasks)
    inflight,   \* per worker, the task handed to it (0 = idle)
    now,        \* the shard's current time, in ticks
    shardOwned, \* the shard's range token is still this host's
    status,     \* the timer processor: "Running" or "Stopped"
    tcall,      \* what the last process(task) call did: {} or {record}
    events,     \* the events table of one run: first_event_id -> row or NoRow
    hcall,      \* what the last write to the events table did: {} or {record}
    reader      \* a caller paging through GetWorkflowExecutionHistory

replicatorVars == <<store, cache, uuidCtr, call>>
timerVars == <<twf, timerTasks, acked, inflight, now, shardOwned, status, tcall>>
historyVars == <<events, hcall, reader>>
vars == <<store, cache, uuidCtr, call,
          twf, timerTasks, acked, inflight, now, shardOwned, status, tcall,
          events, hcall, reader>>

\* --------------------------------------------------------- cluster metadata
Versions == 1..MaxVersion
Clusters == 0..(NumClusters - 1)

ClusterNameForFailoverVersion(version) == version % NumClusters

IsVersionFromSameCluster(v1, v2) == (v1 - v2) % NumClusters = 0

\* ----------------------------------------------------------------- requests
\* request.ReplicationInfo: cluster -> lastEventID. The sender keeps
\* replication info about the clusters other than itself; the model gives
\* the map at most one entry.
ReplicationInfos(version) ==
    {EmptyMap} \cup
    UNION {{[c \in {cl} |-> id] : id \in 1..MaxEventID} :
              cl \in Clusters \ {ClusterNameForFailoverVersion(version)}}

AllOtherRequests ==
    UNION {{[version |-> v, start |-> FALSE, firstEventID |-> f, nextEventID |-> n,
             forceBufferEvents |-> fb, replicationInfo |-> ri] :
               f \in 2..MaxEventID, n \in 3..(MaxEventID + 1),
               fb \in BOOLEAN, ri \in ReplicationInfos(v)} : v \in Versions}

AllStartRequests ==
    {[version |-> v, start |-> TRUE, firstEventID |-> 1, nextEventID |-> n,
      forceBufferEvents |-> FALSE, replicationInfo |-> EmptyMap] :
        n \in 2..(1 + MaxBatchLen), v \in Versions}

WellFormed(req) ==
    /\ req.firstEventID < req.nextEventID
    /\ req.nextEventID - req.firstEventID <= MaxBatchLen

OtherRequests == {r \in AllOtherRequests : WellFormed(r)}

StartRequests == {r \in AllStartRequests : WellFormed(r)}

\* ------------------------------------------------- mutable state (one run)
\* The run's own ID in the request is 0; resets hand out 1, 2, ...
NewMutableState(version) ==
    [exists |-> TRUE, nextEventID |-> 1, lastWriteVersion |-> version,
     lastWriteEventID |-> 0, runID |-> 0, buffer |-> EmptyMap, hist |-> <<>>]

GetNextEventID(ms) == ms.nextEventID

GetLastWriteVersion(ms) == ms.lastWriteVersion

HasBufferedReplicationTasks(ms) == DOMAIN ms.buffer # {}

\* the batch whose firstEventID == nextEventID, if any
HasBufferedReplicationTask(ms, nextEventID) == nextEventID \in DOMAIN ms.buffer

GetBufferedReplicationTask(ms, nextEventID) == ms.buffer[nextEventID]

DeleteBufferedReplicationTask(ms, firstEventID) ==
    [ms EXCEPT !.buffer = [k \in (DOMAIN ms.buffer) \ {firstEventID} |-> ms.buffer[k]]]

BufferTask(req) ==
    [version |-> req.version, firstEventID |-> req.firstEventID,
     nextEventID |-> req.nextEventID]

\* fails (domain error) when the buffer is at capacity
CanBufferReplicationTask(ms, req) ==
    \/ req.firstEventID \in DOMAIN ms.buffer
    \/ Cardinality(DOMAIN ms.buffer) < MaxBuffered

BufferReplicationTask(ms, req) ==
    [ms EXCEPT !.buffer =
        [k \in (DOMAIN ms.buffer) \cup {req.firstEventID} |->
            IF k = req.firstEventID THEN BufferTask(req) ELSE ms.buffer[k]]]

UpdateReplicationStateLastEventID(ms, version, lastEventID) ==
    [ms EXCEPT !.lastWriteVersion = version, !.lastWriteEventID = lastEventID]

\* the history after the events [firstEventID, nextEventID) were written at
\* `version`: hist[i] is the version of event i, 0 where no event was written
WriteHistory(hist, req) ==
    [i \in 1..(req.nextEventID - 1) |->
        IF i >= req.firstEventID THEN req.version
        ELSE IF i <= Len(hist) THEN hist[i] ELSE 0]

\* stateBuilder.applyEvents followed by the replication-state update of the
\* commit: the events are folded into the mutable state
StateBuilderApplyEvents(ms, req) ==
    UpdateReplicationStateLastEventID(
        [ms EXCEPT !.nextEventID = req.nextEventID,
                   !.hist = WriteHistory(ms.hist, req)],
        req.version, req.nextEventID - 1)

\* conflictResolver.reset: the mutable state rebuilt from the history up to
\* and including lastEventID, under a new run ID
ResolverReset(ms, newRunID, lastEventID) ==
    [exists |-> TRUE, nextEventID |-> lastEventID + 1,
     lastWriteVersion |-> IF lastEventID \in 1..Len(ms.hist) THEN ms.hist[lastEventID] ELSE 0,
     lastWriteEventID |-> lastEventID, runID |-> newRunID, buffer |-> EmptyMap,
     hist |-> SubSeq(ms.hist, 1, lastEventID)]

\* ------------------------------------------- the workflow's other runs
\* the runs of the workflow, oldest first; the empty run ID
RunIDs == 1..NumRuns
EmptyRunID == 0

\* ContinuedExecutionRunId of every run's first event: the run it continues,
\* which was created before it, or none
ContinueAsNewChains ==
    {f \in [RunIDs -> RunIDs \cup {EmptyRunID}] : \A r \in RunIDs : f[r] < r}

\* What the run being reset, the workflow's current run, the history store,
\* the domain cache and the history engine answer during one
\* conflictResolutionTerminateContinueAsNew call: the close status and the ID
\* of the run being reset, the answer of getCurrentWorkflowMutableState, the
\* current run's ID and close status, the chain, the lookup that fails (0 =
\* none) and the answer to the termination
ConflictEnv(closeStatus, targetRunID, current, currentCloseStatus, chain, failAt, terminate) ==
    [closeStatus |-> closeStatus, targetRunID |-> targetRunID, current |-> current,
     currentCloseStatus |-> currentCloseStatus, failAt |-> failAt,
     terminate |-> terminate, currentRunID |-> NumRuns, continuedExecutionRunID |-> chain]

Unchained == [r \in RunIDs |-> EmptyRunID]

\* the run being reset is still running
RunningEnv == ConflictEnv("None", 1, "ok", "None", Unchained, 0, "ok")

ConflictEnvs ==
    {RunningEnv, ConflictEnv("Completed", 1, "ok", "None", Unchained, 0, "ok")}
    \cup {ConflictEnv("ContinuedAsNew", 1, cur, "None", Unchained, 0, "ok") :
              cur \in {"err", "notExists"}}
    \cup {ConflictEnv("ContinuedAsNew", 1, "ok", "Completed", Unchained, 0, "ok")}
    \cup {ConflictEnv("ContinuedAsNew", target, "ok", "None", chain, failAt, "ok") :
              target \in RunIDs \ {NumRuns}, chain \in ContinueAsNewChains,
              failAt \in 1..(NumRuns - 1)}
    \cup {ConflictEnv("ContinuedAsNew", target, "ok", "None", chain, 0, answer) :
              target \in RunIDs \ {NumRuns}, chain \in ContinueAsNewChains,
              answer \in {"ok", "notExists", "err", "domainErr"}}

\* what one conflictResolutionTerminateContinueAsNew call has done: the runs
\* whose first event it looked up, in order, the terminate requests sent and
\* whether one returned success, and the run they named
NoConflictResolution ==
    [walk |-> <<>>, terminateRequests |-> 0, terminated |-> FALSE,
     terminatedRunID |-> EmptyRunID]

\* ------------------------------------------------ one call's working state
\* ms: the in-memory mutable state; st: the persisted one; k: the store
\* operation of this call that fails (1 = the next one, 0 = none);
\* applied: the batches that reached ApplyReplicationTask, in order;
\* notified: calls of notify; uuid: run IDs handed out so far; env: the
\* answers to conflict resolution; cr: what conflict resolution has done
NewCtx(ms, st, k, uuid) ==
    [ms |-> ms, k |-> k, st |-> st, uuid |-> uuid, applied |-> <<>>, notified |-> 0,
     env |-> RunningEnv, cr |-> NoConflictResolution]

StoreFails(c) == c.k = 1

Tick(c) == [c EXCEPT !.k = IF @ > 0 THEN @ - 1 ELSE 0]

Ret(c, err) == [c |-> c, err |-> err]

\* context.replicateWorkflowExecution: the CAS commit of the in-memory state
ReplicateWorkflowExecution(c) ==
    IF StoreFails(c) THEN Ret(Tick(c), ErrPersistence)
    ELSE Ret([Tick(c) EXCEPT !.st = c.ms], Nil)

\* context.updateHelper(nil, nil, ...): persists the in-memory state (the
\* buffer), no new events
UpdateHelper(c) ==
    IF StoreFails(c) THEN Ret(Tick(c), ErrPersistence)
    ELSE Ret([Tick(c) EXCEPT !.st = c.ms], Nil)

Notify(c) == [c EXCEPT !.notified = @ + 1]

AppliedEntry(c, req, fromBuffer) ==
    [version |-> req.version, firstEventID |-> req.firstEventID,
     nextEventID |-> req.nextEventID, fromBuffer |-> fromBuffer,
     preNextEventID |-> GetNextEventID(c.ms)]

\* ApplyReplicationTask for a batch whose first event is not
\* WorkflowExecutionStarted
ApplyReplicationTask(c, req, fromBuffer) ==
    LET c1 == [c EXCEPT !.ms = StateBuilderApplyEvents(c.ms, req),
                        !.applied = Append(@, AppliedEntry(c, req, fromBuffer))]
        r == ReplicateWorkflowExecution(c1)
    IN  IF r.err = Nil THEN Ret(Notify(r.c), Nil) ELSE r

FlushRequest(bt) ==
    [version |-> bt.version, start |-> FALSE, firstEventID |-> bt.firstEventID,
     nextEventID |-> bt.nextEventID, forceBufferEvents |-> FALSE, replicationInfo |-> EmptyMap]

\* FlushBuffer applying at most one buffered batch
FlushBufferOnce(c) ==
    IF ~HasBufferedReplicationTasks(c.ms) THEN Ret(c, Nil)
    ELSE LET nextEventID == GetNextEventID(c.ms)
         IN  IF ~HasBufferedReplicationTask(c.ms, nextEventID) THEN Ret(c, Nil)
             ELSE LET bt == GetBufferedReplicationTask(c.ms, nextEventID)
                      c1 == [c EXCEPT !.ms = DeleteBufferedReplicationTask(@, nextEventID)]
                  IN  ApplyReplicationTask(c1, FlushRequest(bt), TRUE)

RECURSIVE FlushBuffer(_)
\* FlushBuffer deleting the batch from the buffer only after it was applied:
\* the commit of the batch still carries it in the buffer
FlushBufferDeleteAfterApply(c) ==
    IF ~HasBufferedReplicationTasks(c.ms) THEN Ret(c, Nil)
    ELSE LET nextEventID == GetNextEventID(c.ms)
         IN  IF ~HasBufferedReplicationTask(c.ms, nextEventID) THEN Ret(c, Nil)
             ELSE LET bt == GetBufferedReplicationTask(c.ms, nextEventID)
                      r == ApplyReplicationTask(c, FlushRequest(bt), TRUE)
                  IN  IF r.err # Nil THEN r
                      ELSE FlushBuffer([r.c EXCEPT
                               !.ms = DeleteBufferedReplicationTask(@, nextEventID)])

FlushBuffer(c) ==
    IF ~HasBufferedReplicationTasks(c.ms) THEN Ret(c, Nil)
    ELSE LET nextEventID == GetNextEventID(c.ms)
         IN  IF ~HasBufferedReplicationTask(c.ms, nextEventID) THEN Ret(c, Nil)
             ELSE LET bt == GetBufferedReplicationTask(c.ms, nextEventID)
                      c1 == [c EXCEPT !.ms = DeleteBufferedReplicationTask(@, nextEventID)]
                      r == ApplyReplicationTask(c1, FlushRequest(bt), TRUE)
                  IN  IF r.err # Nil THEN r ELSE FlushBuffer(r.c)

\* ------------------------------------ conflict resolution: the other runs
\* a termination whose every error is passed over
TerminateWorkflowIgnoreErrors(s, answer) ==
    Ret([s EXCEPT !.terminateRequests = @ + 1, !.terminated = (answer = "ok")], Nil)

\* terminateWorkflow: the domain is looked up first, then one
\* TerminateWorkflowExecution request goes to the history engine
TerminateWorkflow(s, answer) ==
    IF answer = "domainErr" THEN Ret(s, ErrPersistence)
    ELSE Ret([s EXCEPT !.terminateRequests = @ + 1, !.terminated = (answer = "ok")],
             IF answer = "ok" THEN Nil
             ELSE IF answer = "notExists" THEN ErrEntityNotExists
             ELSE ErrPersistence)

\* getPrevRunID: GetWorkflowExecutionHistory of the run's first event
GetPrevRunID(env, runID, lookup) ==
    IF env.failAt = lookup THEN [runID |-> EmptyRunID, err |-> ErrPersistence]
    ELSE [runID |-> env.continuedExecutionRunID[runID], err |-> Nil]

RECURSIVE WalkChain(_, _, _, _)
\* the chain walk without the test for the target run
WalkChainPastTarget(env, runID, err, walk) ==
    IF err = Nil /\ runID # EmptyRunID
    THEN LET p == GetPrevRunID(env, runID, Len(walk) + 1)
         IN  WalkChain(env, p.runID, p.err, Append(walk, runID))
    ELSE [runID |-> runID, walk |-> walk, err |-> err]

\* the loop for err == nil && runID != "" && runID != targetRunID
WalkChain(env, runID, err, walk) ==
    IF err = Nil /\ runID # EmptyRunID /\ runID # env.targetRunID
    THEN LET p == GetPrevRunID(env, runID, Len(walk) + 1)
         IN  WalkChain(env, p.runID, p.err, Append(walk, runID))
    ELSE [runID |-> runID, walk |-> walk, err |-> err]

\* conflict resolution terminating the current run whenever it is open
ConflictResolutionTerminateAnyOpenRun(c) ==
    LET env == c.env
        t == TerminateWorkflow(c.cr, env.terminate)
    IN  IF env.closeStatus # "ContinuedAsNew" THEN Ret(c, Nil)
        ELSE IF env.current # "ok"
             THEN Ret(c, IF env.current = "notExists" THEN ErrEntityNotExists
                         ELSE ErrPersistence)
        ELSE IF env.currentCloseStatus # "None" THEN Ret(c, Nil)
        ELSE Ret([c EXCEPT !.cr = [t.c EXCEPT !.terminatedRunID =
                                      IF t.c.terminateRequests > 0 THEN env.currentRunID
                                      ELSE @]],
                 t.err)

ConflictResolutionTerminateContinueAsNew(c) ==
    LET env == c.env
        w == WalkChain(env, env.currentRunID, Nil, <<>>)
        c1 == [c EXCEPT !.cr.walk = w.walk]
        t == TerminateWorkflow(c1.cr, env.terminate)
    IN  IF env.closeStatus = "None" THEN Ret(c, Nil)
        ELSE IF env.closeStatus # "ContinuedAsNew" THEN Ret(c, Nil)
        ELSE IF env.current # "ok"
             THEN Ret(c, IF env.current = "notExists" THEN ErrEntityNotExists
                         ELSE ErrPersistence)
        ELSE IF env.currentCloseStatus # "None" THEN Ret(c, Nil)
        ELSE IF w.err # Nil THEN Ret(c1, w.err)
        ELSE IF w.runID = EmptyRunID THEN Ret(c1, Nil)
        ELSE Ret([c1 EXCEPT !.cr = [t.c EXCEPT !.terminatedRunID =
                                       IF t.c.terminateRequests > 0 THEN env.currentRunID
                                       ELSE @]],
                 t.err)

\* ------------------------------------------------------ the version gate

Gate(c, err, proceed, resetTo) ==
    [c |-> c, err |-> err, proceed |-> proceed, resetTo |-> resetTo]

\* reset with the run's own ID kept and the replay stopping one event late
ConflictResetKeepRun(c, lastEventID) ==
    IF StoreFails(c) THEN Gate(Tick(c), ErrPersistence, FALSE, 0)
    ELSE LET ms == ResolverReset(c.ms, c.ms.runID, lastEventID + 1)
         IN  Gate([Tick(c) EXCEPT !.ms = ms, !.st = ms], Nil, TRUE, lastEventID)

\* resolver.reset(uuid.New(), ri.GetLastEventId(), startTimestamp): the reset
\* state is persisted by the resolver
ConflictReset(c, lastEventID) ==
    LET newRunID == c.uuid + 1
        c1 == [c EXCEPT !.uuid = newRunID]
    IN  IF StoreFails(c1) THEN Gate(Tick(c1), ErrPersistence, FALSE, 0)
        ELSE LET ms == ResolverReset(c1.ms, newRunID, lastEventID)
             IN  Gate([Tick(c1) EXCEPT !.ms = ms, !.st = ms], Nil, TRUE, lastEventID)

\* the version gate letting a batch without replication info pass whatever
\* cluster its version is from
ApplyOtherEventsVersionCheckingAnyCluster(c, req) ==
    LET incomingVersion == req.version
        rState == c.ms
        previousActiveCluster == ClusterNameForFailoverVersion(rState.lastWriteVersion)
    IN  IF rState.lastWriteVersion > incomingVersion THEN Gate(c, Nil, FALSE, 0)
        ELSE IF rState.lastWriteVersion = incomingVersion THEN Gate(c, Nil, TRUE, 0)
        ELSE IF previousActiveCluster \notin DOMAIN req.replicationInfo
             THEN Gate(c, Nil, TRUE, 0)
        ELSE LET ri == req.replicationInfo[previousActiveCluster]
             IN  IF ri > rState.lastWriteEventID
                 THEN Gate(c, ErrCorruptedReplicationInfo, FALSE, 0)
                 ELSE IF ri < rState.lastWriteEventID
                 THEN LET t == ConflictResolutionTerminateContinueAsNew(c)
                      IN  IF t.err # Nil THEN Gate(t.c, t.err, FALSE, 0)
                          ELSE ConflictReset(t.c, ri)
                 ELSE Gate(c, Nil, TRUE, 0)

\* the version gate resetting also when the replication info's lastEventID
\* equals the local lastWriteEventID
ApplyOtherEventsVersionCheckingResetOnEqual(c, req) ==
    LET incomingVersion == req.version
        rState == c.ms
        previousActiveCluster == ClusterNameForFailoverVersion(rState.lastWriteVersion)
    IN  IF rState.lastWriteVersion > incomingVersion THEN Gate(c, Nil, FALSE, 0)
        ELSE IF rState.lastWriteVersion = incomingVersion THEN Gate(c, Nil, TRUE, 0)
        ELSE IF previousActiveCluster \notin DOMAIN req.replicationInfo
             THEN IF IsVersionFromSameCluster(incomingVersion, rState.lastWriteVersion)
                  THEN Gate(c, Nil, TRUE, 0)
                  ELSE Gate(c, ErrMissingReplicationInfo, FALSE, 0)
        ELSE LET ri == req.replicationInfo[previousActiveCluster]
             IN  IF ri > rState.lastWriteEventID
                 THEN Gate(c, ErrCorruptedReplicationInfo, FALSE, 0)
                 ELSE LET t == ConflictResolutionTerminateContinueAsNew(c)
                      IN  IF t.err # Nil THEN Gate(t.c, t.err, FALSE, 0)
                          ELSE ConflictReset(t.c, ri)

\* ApplyOtherEventsVersionChecking: drop, proceed, dead-letter or reset
ApplyOtherEventsVersionChecking(c, req) ==
    LET incomingVersion == req.version
        rState == c.ms
        previousActiveCluster == ClusterNameForFailoverVersion(rState.lastWriteVersion)
    IN  IF rState.lastWriteVersion > incomingVersion THEN Gate(c, Nil, FALSE, 0)
        ELSE IF rState.lastWriteVersion = incomingVersion THEN Gate(c, Nil, TRUE, 0)
        ELSE IF previousActiveCluster \notin DOMAIN req.replicationInfo
             THEN IF IsVersionFromSameCluster(incomingVersion, rState.lastWriteVersion)
                  THEN Gate(c, Nil, TRUE, 0)
                  ELSE Gate(c, ErrMissingReplicationInfo, FALSE, 0)
        ELSE LET ri == req.replicationInfo[previousActiveCluster]
             IN  IF ri > rState.lastWriteEventID
                 THEN Gate(c, ErrCorruptedReplicationInfo, FALSE, 0)
                 ELSE IF ri < rState.lastWriteEventID
                 THEN LET t == ConflictResolutionTerminateContinueAsNew(c)
                      IN  IF t.err # Nil THEN Gate(t.c, t.err, FALSE, 0)
                          ELSE ConflictReset(t.c, ri)
                 ELSE Gate(c, Nil, TRUE, 0)

\* ApplyEvents' deferred function: EntityNotExists becomes the retry sentinel
TranslateError(err) ==
    IF err = ErrEntityNotExists THEN ErrRetryEntityNotExists ELSE err

\* ------------------------------------------------- apply / buffer decision
Out(c, err, path) == [c |-> c, err |-> err, path |-> path]

\* ApplyOtherEvents without the out-of-order branch: a batch ahead of
\* nextEventID is applied at once
ApplyOtherEventsApplyAhead(c, req) ==
    IF req.firstEventID < GetNextEventID(c.ms) THEN Out(c, Nil, "duplicate")
    ELSE LET r == ApplyReplicationTask(c, req, FALSE)
         IN  IF r.err # Nil THEN Out(r.c, r.err, "applyFailed")
             ELSE LET f == FlushBuffer(r.c)
                  IN  Out(f.c, f.err, "applied")

\* ApplyOtherEvents buffering the batch before it looks at forceBufferEvents
ApplyOtherEventsBufferFirst(c, req) ==
    IF req.firstEventID < GetNextEventID(c.ms) THEN Out(c, Nil, "duplicate")
    ELSE IF req.firstEventID > GetNextEventID(c.ms)
    THEN IF ~CanBufferReplicationTask(c.ms, req) THEN Out(c, ErrFailedToBuffer, "bufferFull")
         ELSE LET c1 == [c EXCEPT !.ms = BufferReplicationTask(@, req)]
              IN  IF ~req.forceBufferEvents THEN Out(c1, ErrRetryBufferEvents, "retryBuffer")
                  ELSE LET r == UpdateHelper(c1) IN Out(r.c, r.err, "buffered")
    ELSE LET r == ApplyReplicationTask(c, req, FALSE)
         IN  IF r.err # Nil THEN Out(r.c, r.err, "applyFailed")
             ELSE LET f == FlushBuffer(r.c)
                  IN  Out(f.c, f.err, "applied")

\* ApplyOtherEvents buffering in memory only: the buffer is not persisted
ApplyOtherEventsNoPersist(c, req) ==
    IF req.firstEventID < GetNextEventID(c.ms) THEN Out(c, Nil, "duplicate")
    ELSE IF req.firstEventID > GetNextEventID(c.ms)
    THEN IF ~req.forceBufferEvents THEN Out(c, ErrRetryBufferEvents, "retryBuffer")
         ELSE IF ~CanBufferReplicationTask(c.ms, req)
              THEN Out(c, ErrFailedToBuffer, "bufferFull")
              ELSE Out([c EXCEPT !.ms = BufferReplicationTask(@, req)], Nil, "buffered")
    ELSE LET r == ApplyReplicationTask(c, req, FALSE)
         IN  IF r.err # Nil THEN Out(r.c, r.err, "applyFailed")
             ELSE LET f == FlushBuffer(r.c)
                  IN  Out(f.c, f.err, "applied")

ApplyOtherEvents(c, req) ==
    LET firstEventID == req.firstEventID
    IN  IF firstEventID < GetNextEventID(c.ms) THEN Out(c, Nil, "duplicate")
        ELSE IF firstEventID > GetNextEventID(c.ms)
        THEN IF ~req.forceBufferEvents THEN Out(c, ErrRetryBufferEvents, "retryBuffer")
             ELSE IF ~CanBufferReplicationTask(c.ms, req)
                  THEN Out(c, ErrFailedToBuffer, "bufferFull")
                  ELSE LET r == UpdateHelper([c EXCEPT !.ms = BufferReplicationTask(@, req)])
                       IN  Out(r.c, r.err, "buffered")
        ELSE LET r == ApplyReplicationTask(c, req, FALSE)
             IN  IF r.err # Nil THEN Out(r.c, r.err, "applyFailed")
                 ELSE LET f == FlushBuffer(r.c)
                      IN  Out(f.c, f.err, "applied")

\* ApplyEvents for a batch whose first event is not WorkflowExecutionStarted,
\* on a run whose mutable state exists: pre-flush, version gate, apply/buffer.
\* gate is the working state the version gate handed on (ApplyOtherEvents' input)
\* pre is the working state the pre-flush handed to the version gate
Outcome(c, err, path, resetTo, gate, pre) ==
    [c |-> c, err |-> TranslateError(err), resetTo |-> resetTo, path |-> path,
     gate |-> gate, pre |-> pre]

ApplyEventsOther(c, req) ==
    LET pre == FlushBuffer(c)
    IN  IF pre.err # Nil THEN Outcome(pre.c, pre.err, "preFlushFailed", 0, pre.c, pre.c)
        ELSE LET g == ApplyOtherEventsVersionChecking(pre.c, req)
             IN  IF g.err # Nil THEN Outcome(g.c, g.err, "gateError", 0, g.c, pre.c)
                 ELSE IF ~g.proceed THEN Outcome(g.c, Nil, "stale", 0, g.c, pre.c)
                 ELSE LET o == ApplyOtherEvents(g.c, req)
                      IN  Outcome(o.c, o.err, o.path, g.resetTo, g.c, pre.c)

\* ------------------------------------------------------- the start batch
\* What the shard, the domain cache, the history engine and the workflow's
\* current run answer during one replicateWorkflowStarted call
StartEnvs ==
    [append : {"ok", "err"},
     create1 : {"ok", "err", "started"},
     curSameRun : BOOLEAN,
     curCompleted : BOOLEAN,
     curStartVersion : Versions,
     flushOK : BOOLEAN,
     terminate : {"ok", "notExists", "err", "domainErr"},
     create2 : {"ok", "err", "started"}]

\* run IDs: the run of the request, the workflow's current run, none
NoRunID == ""
CurrentRunID == "currentRunID"

\* what one replicateWorkflowStarted call has done so far: history rows of
\* the request's run appended / deleted, the workflow record created and
\* with which PreviousRunID, flushCurrentWorkflowBuffer called, terminate
\* requests sent to the current run and whether one returned success, and
\* how many terminate requests had returned when the last create was issued
NoStart ==
    [terminateRequests |-> 0, terminated |-> FALSE, err |-> Nil, branch |-> "",
     appended |-> FALSE, historyDeleted |-> FALSE, creates |-> 0, created |-> FALSE,
     prevRunID |-> NoRunID, flushed |-> FALSE, terminateAtCreate |-> 0]

StartOut(s, err, branch) == [s EXCEPT !.err = err, !.branch = branch]

\* the start part of a call record: the answers the call got and what it did
StartRecord(env, out) == [env |-> env, out |-> out]

NotStart == StartRecord(<<>>, NoStart)

\* r.shard.AppendHistoryEvents succeeded
AppendHistoryEvents(s) == [s EXCEPT !.appended = TRUE]

\* deleteHistory()
DeleteHistory(s) == [s EXCEPT !.historyDeleted = TRUE]

\* createWorkflow(isBrandNew, prevRunID) answered by the store with result
CreateWorkflow(s, result, prevRunID) ==
    [s EXCEPT !.creates = @ + 1,
              !.terminateAtCreate = s.terminateRequests,
              !.created = (result = "ok"),
              !.prevRunID = IF result = "ok" THEN prevRunID ELSE @]

CreateError(result) ==
    IF result = "ok" THEN Nil
    ELSE IF result = "started" THEN ErrRetryExecutionAlreadyStarted
    ELSE ErrPersistence

\* flushCurrentWorkflowBuffer
FlushCurrentWorkflowBuffer(s, flushOK) ==
    Ret([s EXCEPT !.flushed = TRUE], IF flushOK THEN Nil ELSE ErrPersistence)

\* a start batch is taken for stale already at the current run's version
IsStaleOrSameVersionStart(currentStartVersion, incomingVersion) ==
    currentStartVersion >= incomingVersion

\* the current run was started at a higher version than the incoming batch
IsStaleStart(currentStartVersion, incomingVersion) ==
    currentStartVersion > incomingVersion

CreateWithPrevRunID(s, env, branch) ==
    StartOut(CreateWorkflow(s, env.create2, CurrentRunID), CreateError(env.create2), branch)

ReplicateWorkflowStarted(req, env) ==
    LET incomingVersion == req.version
        s1 == AppendHistoryEvents(NoStart)
        s2 == CreateWorkflow(s1, env.create1, NoRunID)
        fl == FlushCurrentWorkflowBuffer(s2, env.flushOK)
        tm == TerminateWorkflow(s2, env.terminate)
    IN  IF env.append = "err" THEN StartOut(NoStart, ErrPersistence, "appendFailed")
        ELSE IF env.create1 = "ok" THEN StartOut(s2, Nil, "brandNew")
        ELSE IF env.create1 = "err"
             THEN StartOut(DeleteHistory(s2), ErrPersistence, "createFailed")
        ELSE IF env.curSameRun THEN StartOut(s2, Nil, "sameRun")
        ELSE IF env.curCompleted
             THEN IF IsStaleStart(env.curStartVersion, incomingVersion)
                  THEN StartOut(DeleteHistory(s2), Nil, "completedStale")
                  ELSE CreateWithPrevRunID(s2, env, "completedContinue")
        ELSE IF IsStaleStart(env.curStartVersion, incomingVersion)
             THEN StartOut(DeleteHistory(s2), Nil, "runningStale")
        ELSE IF env.curStartVersion = incomingVersion
             THEN IF fl.err # Nil
                  THEN StartOut(fl.c, fl.err, "flushCurrentFailed")
                  ELSE StartOut(fl.c, ErrRetryExistingWorkflow, "retryExisting")
        ELSE IF tm.err \notin {Nil, ErrEntityNotExists}
             THEN StartOut(tm.c, tm.err, "terminateFailed")
             ELSE CreateWithPrevRunID(tm.c, env, "terminateThenCreate")

\* ApplyStartEvent: a fresh mutable state at request.version, the batch
\* folded into it, then replicateWorkflowStarted
ApplyStartEvent(req) == StateBuilderApplyEvents(NewMutableState(req.version), req)

\* ------------------------------------ no mutable state for the target run
\* curLastWriteVersion = 0: the workflow has no current run either

\* the same, dropping a batch of the current run's own version too
ApplyOtherEventsMissingMutableStateDropEqual(req, curLastWriteVersion, flushOK) ==
    IF curLastWriteVersion = 0 THEN Out(0, ErrRetryEntityNotExists, "noCurrentRun")
    ELSE IF curLastWriteVersion >= req.version THEN Out(0, Nil, "staleMissing")
    ELSE IF ~flushOK THEN Out(1, ErrPersistence, "flushCurrentFailed")
    ELSE Out(1, ErrRetryEntityNotExists, "retryMissing")

\* ApplyOtherEventsMissingMutableState; the c of the outcome is the number of
\* flushCurrentWorkflowBuffer calls made on the current run
ApplyOtherEventsMissingMutableState(req, curLastWriteVersion, flushOK) ==
    IF curLastWriteVersion = 0 THEN Out(0, ErrRetryEntityNotExists, "noCurrentRun")
    ELSE IF curLastWriteVersion > req.version THEN Out(0, Nil, "staleMissing")
    ELSE IF ~flushOK THEN Out(1, ErrPersistence, "flushCurrentFailed")
    ELSE Out(1, ErrRetryEntityNotExists, "retryMissing")

\* ------------------------------------------ the events table (Cassandra)
\* cassandraHistoryPersistence on the rows of one (domain, workflow, run):
\* a row per first_event_id holding event_batch_version, range_id and tx_id
\* (the data columns are written and read with the row and are left out)
FirstEventIDs == 1..NumBatches
BatchVersions == 1..MaxBatchVersion
RangeIDs == 1..MaxRangeID
TransactionIDs == 1..MaxTransactionID

\* common.EmptyVersion
EmptyVersion == -24

NoRow == [exists |-> FALSE]

Row(eventBatchVersion, rangeID, transactionID) ==
    [exists |-> TRUE, event_batch_version |-> eventBatchVersion, range_id |-> rangeID,
     tx_id |-> transactionID]

EmptyTable == [k \in FirstEventIDs |-> NoRow]

ErrConditionFailed == "ConditionFailedError"
ErrTimeout == "TimeoutError"
ErrServiceBusy == "ServiceBusyError"
ErrInternalService == "InternalServiceError"

AppendHistoryEventsRequest(firstEventID, eventBatchVersion, rangeID, transactionID, overwrite) ==
    [firstEventID |-> firstEventID, eventBatchVersion |-> eventBatchVersion,
     rangeID |-> rangeID, transactionID |-> transactionID, overwrite |-> overwrite]

AppendRequests ==
    {AppendHistoryEventsRequest(k, v, r, t, o) :
        k \in FirstEventIDs, v \in BatchVersions, r \in RangeIDs, t \in TransactionIDs,
        o \in BOOLEAN}

\* the overwrite condition with tx_id <= ? in place of tx_id < ?
OverwriteAppliesOnEqualTx(row, request) ==
    /\ row.exists
    /\ row.range_id <= request.rangeID
    /\ row.tx_id <= request.transactionID

\* templateOverwriteHistoryEvents: UPDATE ... IF range_id <= ? AND tx_id < ?
\* (the condition is not met by a row that does not exist)
OverwriteApplies(row, request) ==
    /\ row.exists
    /\ row.range_id <= request.rangeID
    /\ row.tx_id < request.transactionID

\* templateAppendHistoryEvents: INSERT ... IF NOT EXISTS
InsertApplies(row, request) == ~row.exists

\* the lightweight transaction of AppendHistoryEvents: [table, applied]
MapScanCAS(table, request) ==
    LET row == table[request.firstEventID]
        applied == IF request.overwrite THEN OverwriteApplies(row, request)
                   ELSE InsertApplies(row, request)
        written == Row(request.eventBatchVersion, request.rangeID, request.transactionID)
    IN  [applied |-> applied,
         table |-> IF applied THEN [table EXCEPT ![request.firstEventID] = written]
                   ELSE table]

\* what the session answers a query: "ok"; "throttled" and "error" before the
\* statement ran; "timeout" and "timeoutWritten" when no answer came back,
\* the statement not having run or having run
QueryAnswers == {"ok", "throttled", "error", "timeout", "timeoutWritten"}

\* AppendHistoryEvents: [table, err]
AppendHistoryEventsRow(table, request, answer) ==
    LET cas == MapScanCAS(table, request)
    IN  IF answer = "throttled" THEN [err |-> ErrServiceBusy, table |-> table]
        ELSE IF answer = "timeout" THEN [err |-> ErrTimeout, table |-> table]
        ELSE IF answer = "timeoutWritten" THEN [err |-> ErrTimeout, table |-> cas.table]
        ELSE IF answer = "error" THEN [err |-> ErrInternalService, table |-> table]
        ELSE IF ~cas.applied THEN [err |-> ErrConditionFailed, table |-> table]
        ELSE [err |-> Nil, table |-> cas.table]

\* DeleteWorkflowExecutionHistory: every row of the run
DeleteWorkflowExecutionHistoryRows(table, answer) ==
    IF answer = "throttled" THEN [err |-> ErrServiceBusy, table |-> table]
    ELSE IF answer = "error" THEN [err |-> ErrInternalService, table |-> table]
    ELSE [err |-> Nil, table |-> EmptyTable]

\* ---- the page token
\* historyToken{LastEventBatchVersion, Data}; Data is Cassandra's paging
\* state: no bytes for "from the start" / "no more pages", else one byte
\* naming the first_event_id the next page resumes after
HistoryToken(lastEventBatchVersion, data) ==
    [LastEventBatchVersion |-> lastEventBatchVersion, Data |-> data]

PageStates == {<<>>} \cup {<<k>> : k \in FirstEventIDs}

HistoryTokens ==
    {HistoryToken(v, d) : v \in BatchVersions \cup {EmptyVersion}, d \in PageStates}

\* the bytes of encoding/json: '{', the version (one byte, '-' for
\* EmptyVersion), the base64 text of Data (one letter per byte), '}'
OpenBrace == 123
CloseBrace == 125
Minus == 45
Digit0 == 48
LetterA == 65

VersionByte(v) == IF v = EmptyVersion THEN Minus ELSE Digit0 + v
ByteVersion(b) == IF b = Minus THEN EmptyVersion ELSE b - Digit0

Base64Encode(data) == [i \in 1..Len(data) |-> LetterA + data[i]]
Base64Decode(text) == [i \in 1..Len(text) |-> text[i] - LetterA]

JSONMarshal(token) ==
    <<OpenBrace, VersionByte(token.LastEventBatchVersion)>>
        \o Base64Encode(token.Data) \o <<CloseBrace>>

\* json.Unmarshal accepts the bytes
JSONValid(data) ==
    /\ Len(data) >= 3
    /\ data[1] = OpenBrace
    /\ data[Len(data)] = CloseBrace
    /\ data[2] = Minus \/ (data[2] >= Digit0 /\ data[2] <= Digit0 + 9)
    /\ \A i \in 3..(Len(data) - 1) : data[i] >= LetterA

JSONUnmarshal(data) ==
    HistoryToken(ByteVersion(data[2]), Base64Decode(SubSeq(data, 3, Len(data) - 1)))

\* serializeToken returning the cursor bytes as they are
SerializeTokenRaw(token) == token.Data

\* serializeToken: nil for a token without cursor, else the JSON text
SerializeToken(token) ==
    IF Len(token.Data) = 0 THEN <<>> ELSE JSONMarshal(token)

\* deserializeToken: no bytes give the empty token, JSON text the token it
\* encodes, any other bytes are taken as a raw Cassandra paging state
DeserializeToken(data) ==
    IF Len(data) = 0 THEN HistoryToken(EmptyVersion, <<>>)
    ELSE IF JSONValid(data) THEN JSONUnmarshal(data)
    ELSE HistoryToken(EmptyVersion, data)

\* ---- reading pages
GetWorkflowExecutionHistoryRequest(firstEventID, nextEventID, pageSize, nextPageToken) ==
    [firstEventID |-> firstEventID, nextEventID |-> nextEventID, pageSize |-> pageSize,
     nextPageToken |-> nextPageToken]

RECURSIVE Ascending(_)
\* the first_event_ids of S in clustering order
Ascending(S) ==
    IF S = {} THEN <<>>
    ELSE LET k == CHOOSE x \in S : \A y \in S : x <= y
         IN  <<k>> \o Ascending(S \ {k})

\* the rows templateGetWorkflowExecutionHistory selects, after the paging state
SelectedRows(table, request, pageState) ==
    LET after == IF Len(pageState) = 0 THEN 0 ELSE pageState[1]
    IN  Ascending({k \in FirstEventIDs : /\ table[k].exists
                                         /\ k >= request.firstEventID
                                         /\ k < request.nextEventID
                                         /\ k > after})

Batch(firstEventID, eventBatchVersion) ==
    [firstEventID |-> firstEventID, eventBatchVersion |-> eventBatchVersion]

RECURSIVE ScanPage(_, _, _, _)
\* the scan loop keeping every batch, whatever its version
ScanPageKeepAll(table, rows, last, batches) ==
    IF rows = <<>> THEN [last |-> last, batches |-> batches]
    ELSE LET v == table[Head(rows)].event_batch_version
         IN  ScanPage(table, Tail(rows), v, Append(batches, Batch(Head(rows), v)))

\* for iter.MapScan(result): a batch is appended if its version is not below
\* token.LastEventBatchVersion, which then takes the batch's version
ScanPage(table, rows, last, batches) ==
    IF rows = <<>> THEN [last |-> last, batches |-> batches]
    ELSE LET v == table[Head(rows)].event_batch_version
         IN  IF v >= last
             THEN ScanPage(table, Tail(rows), v, Append(batches, Batch(Head(rows), v)))
             ELSE ScanPage(table, Tail(rows), last, batches)

NoResponse == [events |-> <<>>, nextPageToken |-> <<>>]

\* GetWorkflowExecutionHistory: [response, err, received, sent]; received is
\* the token deserialized from the request, sent the token serialized into
\* the response. morePages: Cassandra hands out a paging state after a full
\* page although no row is left; closeErr: iter.Close failed
GetWorkflowExecutionHistory(table, request, morePages, closeErr) ==
    LET token == DeserializeToken(request.nextPageToken)
        rows == SelectedRows(table, request, token.Data)
        n == IF Len(rows) < request.pageSize THEN Len(rows) ELSE request.pageSize
        page == SubSeq(rows, 1, n)
        found == n > 0
        pageState == IF Len(rows) > n \/ (n = request.pageSize /\ morePages)
                     THEN <<page[n]>> ELSE <<>>
        scan == ScanPage(table, page, token.LastEventBatchVersion, <<>>)
        token2 == HistoryToken(scan.last, pageState)
        fail(err) == [err |-> err, response |-> NoResponse, received |-> token,
                      sent |-> token2]
    IN  IF closeErr THEN fail(ErrInternalService)
        ELSE IF ~found /\ Len(request.nextPageToken) = 0 THEN fail(ErrEntityNotExists)
        ELSE [err |-> Nil,
              response |-> [events |-> scan.batches,
                            nextPageToken |-> SerializeToken(token2)],
              received |-> token, sent |-> token2]

\* ---- the callers of the history manager
HistoryCall(op, request, previous, err) ==
    [err |-> err, request |-> request, op |-> op, previous |-> previous]

NoAppend == AppendHistoryEventsRequest(0, 0, 0, 0, FALSE)

\* a caller paging through the history: its request, the token it was handed
\* last, the batches it was handed so far, the pages it read
Reader(request, answer, batches, pages) ==
    [request |-> request, last |-> answer, batches |-> batches, pages |-> pages,
     active |-> TRUE]

NoReader ==
    [request |-> GetWorkflowExecutionHistoryRequest(0, 0, 0, <<>>),
     last |-> [err |-> Nil, response |-> NoResponse,
               received |-> HistoryToken(EmptyVersion, <<>>),
               sent |-> HistoryToken(EmptyVersion, <<>>)],
     batches |-> <<>>, pages |-> 0, active |-> FALSE]

HistoryStart ==
    /\ events = EmptyTable
    /\ hcall = {}
    /\ reader = NoReader

\* shard.AppendHistoryEvents / historyMgr.AppendHistoryEvents
AppendHistory ==
    /\ hcall = {}
    /\ ~reader.active
    /\ \E request \in AppendRequests, answer \in QueryAnswers :
          LET r == AppendHistoryEventsRow(events, request, answer)
          IN  /\ events' = r.table
              /\ hcall' = {HistoryCall("append", request, events, r.err)}
    /\ UNCHANGED reader
    /\ UNCHANGED <<replicatorVars, timerVars>>

\* historyMgr.DeleteWorkflowExecutionHistory
DeleteHistoryRows ==
    /\ hcall = {}
    /\ ~reader.active
    /\ events # EmptyTable
    /\ \E answer \in {"ok", "throttled", "error"} :
          LET r == DeleteWorkflowExecutionHistoryRows(events, answer)
          IN  /\ events' = r.table
              /\ hcall' = {HistoryCall("delete", NoAppend, events, r.err)}
    /\ UNCHANGED reader
    /\ UNCHANGED <<replicatorVars, timerVars>>

\* a write of another caller lands while the reader is between two pages
ConcurrentAppend ==
    /\ reader.active
    /\ \E request \in AppendRequests :
          /\ MapScanCAS(events, request).applied
          /\ events' = MapScanCAS(events, request).table
    /\ UNCHANGED <<hcall, reader>>
    /\ UNCHANGED <<replicatorVars, timerVars>>

\* the caller of the write has its answer
ReturnHistory ==
    /\ hcall # {}
    /\ hcall' = {}
    /\ UNCHANGED <<events, reader>>
    /\ UNCHANGED <<replicatorVars, timerVars>>

\* a caller asks for the first page: without token, or with a raw Cassandra
\* paging state kept from before the token had a version
ReadFirstPage ==
    /\ hcall = {}
    /\ ~reader.active
    /\ \E first \in FirstEventIDs, pageSize \in 1..MaxPageSize, pageState \in PageStates,
          morePages \in BOOLEAN, closeErr \in BOOLEAN :
          LET request == GetWorkflowExecutionHistoryRequest(first, NumBatches + 1,
                                                            pageSize, pageState)
              r == GetWorkflowExecutionHistory(events, request, morePages, closeErr)
          IN  reader' = Reader(request, r, r.response.events, 1)
    /\ UNCHANGED <<events, hcall>>
    /\ UNCHANGED <<replicatorVars, timerVars>>

\* the caller passes the token of the last page along
ReadNextPage ==
    /\ hcall = {}
    /\ reader.active
    /\ reader.last.err = Nil
    /\ Len(reader.last.response.nextPageToken) > 0
    /\ \E morePages \in BOOLEAN, closeErr \in BOOLEAN :
          LET request == [reader.request EXCEPT
                             !.nextPageToken = reader.last.response.nextPageToken]
              r == GetWorkflowExecutionHistory(events, request, morePages, closeErr)
          IN  reader' = Reader(request, r, reader.batches \o r.response.events,
                               reader.pages + 1)
    /\ UNCHANGED <<events, hcall>>
    /\ UNCHANGED <<replicatorVars, timerVars>>

\* the caller is done: no token left, an error, or it gives up
CloseReader ==
    /\ reader.active
    /\ reader' = NoReader
    /\ UNCHANGED <<events, hcall>>
    /\ UNCHANGED <<replicatorVars, timerVars>>

\* a token is serialized and the bytes deserialized again
TokenRoundTrip ==
    /\ hcall = {}
    /\ ~reader.active
    /\ \E token \in HistoryTokens :
          hcall' = {HistoryCall("token", NoAppend, events,
                                [token |-> token,
                                 bytes |-> SerializeToken(token),
                                 back |-> DeserializeToken(SerializeToken(token))])}
    /\ UNCHANGED <<events, reader>>
    /\ UNCHANGED <<replicatorVars, timerVars>>

NextHistory ==
    \/ AppendHistory
    \/ DeleteHistoryRows
    \/ ConcurrentAppend
    \/ ReturnHistory
    \/ ReadFirstPage
    \/ ReadNextPage
    \/ CloseReader
    \/ TokenRoundTrip

\* ------------------------------------------------------------------ actions
\* gate: the working state the version gate handed to ApplyOtherEvents (its
\* in-memory and persisted mutable state, the applies and notifications done
\* before it); pre: the same for the working state the gate was given;
\* ms: the in-memory mutable state when the call returned
GateRecord(c) ==
    [ms |-> c.ms, st |-> c.st, applied |-> Len(c.applied), notified |-> c.notified,
     env |-> c.env, cr |-> c.cr]

NoGate ==
    [ms |-> NoMS, st |-> NoMS, applied |-> 0, notified |-> 0,
     env |-> RunningEnv, cr |-> NoConflictResolution]

\* what a call for a run without mutable state learnt of the current run and
\* did to it
CurrentRun(lastWriteVersion, flushOK, flushes) ==
    [lastWriteVersion |-> lastWriteVersion, flushOK |-> flushOK, flushes |-> flushes]

NoCurrentRun == CurrentRun(0, TRUE, 0)

CallRecord(req, fail, err, path, resetTo, gate, ms, applied, notified, start, pre) ==
    [start |-> start, req |-> req, ms |-> ms, current |-> NoCurrentRun, applied |-> applied,
     notified |-> notified, resetTo |-> resetTo, path |-> path, gate |-> gate,
     pre |-> pre, result |-> err, fail |-> fail]

\* release(retError): a non-nil error drops the cached mutable state
Release(err, ms) == IF err # Nil THEN NoMS ELSE ms

LoadWorkflowExecution == IF cache.exists THEN cache ELSE store

InitReplicator ==
    /\ store = NoMS
    /\ cache = NoMS
    /\ uuidCtr = 0
    /\ call = {}
    /\ HistoryStart

\* ApplyEvents, first event not WorkflowExecutionStarted, run exists locally
ApplyEventsOnRun(req, fail, env) ==
    \E o \in {ApplyEventsOther([NewCtx(LoadWorkflowExecution, store, fail, uuidCtr)
                                    EXCEPT !.env = env], req)} :
        /\ o.c.uuid <= MaxResets
        /\ store' = o.c.st
        /\ cache' = Release(o.err, o.c.ms)
        /\ uuidCtr' = o.c.uuid
        /\ call' = {CallRecord(req, fail, o.err, o.path, o.resetTo, GateRecord(o.gate),
                               o.c.ms, o.c.applied, o.c.notified, NotStart,
                               GateRecord(o.pre))}
        /\ UNCHANGED <<timerVars, historyVars>>

\* the version gate will find a conflict to resolve in the mutable state ms
DetectsConflict(ms, req) ==
    LET previousActiveCluster == ClusterNameForFailoverVersion(ms.lastWriteVersion)
    IN  /\ ms.lastWriteVersion < req.version
        /\ previousActiveCluster \in DOMAIN req.replicationInfo
        /\ req.replicationInfo[previousActiveCluster] < ms.lastWriteEventID

\* the answers to conflict resolution that matter for the call: all of them
\* when the call resolves a conflict and no store operation fails
ConflictEnvsFor(req, fail) ==
    IF /\ fail = 0
       /\ DetectsConflict(FlushBuffer(NewCtx(LoadWorkflowExecution, store, 0, uuidCtr)).c.ms,
                          req)
    THEN ConflictEnvs
    ELSE {RunningEnv}

HandleOther ==
    /\ call = {}
    /\ store.exists
    /\ \E req \in OtherRequests, fail \in 0..MaxFail :
          \E env \in ConflictEnvsFor(req, fail) : ApplyEventsOnRun(req, fail, env)

\* ApplyEvents, first event not WorkflowExecutionStarted, run unknown locally
HandleMissing ==
    /\ call = {}
    /\ ~store.exists
    /\ \E req \in OtherRequests, cur \in 0..MaxVersion, flushOK \in BOOLEAN :
          LET o == ApplyOtherEventsMissingMutableState(req, cur, flushOK)
          IN  call' = {[CallRecord(req, 0, o.err, o.path, 0, NoGate, NoMS, <<>>, 0,
                                      NotStart, NoGate)
                           EXCEPT !.current = CurrentRun(cur, flushOK, o.c)]}
    /\ UNCHANGED <<store, cache, uuidCtr>>
    /\ UNCHANGED <<timerVars, historyVars>>

\* ApplyEvents, first event WorkflowExecutionStarted, run exists locally:
\* a duplicate start, dropped
HandleStartDuplicate ==
    /\ call = {}
    /\ store.exists
    /\ \E req \in StartRequests :
          call' = {CallRecord(req, 0, Nil, "duplicateStart", 0, NoGate, NoMS, <<>>, 0,
                                 NotStart, NoGate)}
    /\ UNCHANGED <<store, cache, uuidCtr>>
    /\ UNCHANGED <<timerVars, historyVars>>

\* ApplyEvents, first event WorkflowExecutionStarted, run unknown locally
HandleStart ==
    /\ call = {}
    /\ ~store.exists
    /\ \E req \in StartRequests, env \in StartEnvs :
          LET o == ReplicateWorkflowStarted(req, env)
          IN  /\ store' = IF o.created THEN ApplyStartEvent(req) ELSE store
              /\ call' = {CallRecord(req, 0, o.err, o.branch, 0, NoGate, NoMS, <<>>,
                                     IF o.err = Nil THEN 1 ELSE 0,
                                     StartRecord(env, o), NoGate)}
    /\ UNCHANGED <<cache, uuidCtr>>
    /\ UNCHANGED <<timerVars, historyVars>>

\* the caller of ApplyEvents takes the result
Return ==
    /\ call # {}
    /\ call' = {}
    /\ UNCHANGED <<store, cache, uuidCtr>>
    /\ UNCHANGED <<timerVars, historyVars>>

Next ==
    \/ HandleOther
    \/ HandleMissing
    \/ HandleStartDuplicate
    \/ HandleStart
    \/ Return

\* ======================================== the active timer queue processor
\* One run with NumUserTimers user timers and one started activity with a
\* heartbeat timeout. process(task) runs under the execution lock and is one
\* atomic action; what other writers do to the run between a handler's load
\* and its commit is an input of the action (TimerEnvs).
NumUserTimers == 2
NumWorkers == 2
MaxTime == 3
TicksPerSecond == 2
HeartbeatTimeoutSeconds == 1
ConditionalRetryCount == 2
MaxTimerTasks == 3
MaxAttempt == 1
MaxTimeout == 2

ErrConflict == "ErrConflict"
ErrMaxAttemptsExceeded == "ErrMaxAttemptsExceeded"
ErrShardOwnershipLost == "ErrShardOwnershipLost"
ErrFilter == "ErrFilter"
ErrBufferedEventsLimitExceeded == "ErrBufferedEventsLimitExceeded"
errFailedToAddTimerFiredEvent == "errFailedToAddTimerFiredEvent"
errFailedToAddTimeoutEvent == "errFailedToAddTimeoutEvent"

TimerIDs == 1..NumUserTimers
Workers == 1..NumWorkers
HeartbeatTimeout == HeartbeatTimeoutSeconds * TicksPerSecond

\* time.Time.Unix(): the time truncated to whole seconds
Unix(t) == t \div TicksPerSecond

\* persistence.TimerTaskInfo: type, visibility time, event ID, timeout type
\* and schedule attempt
TimerTaskInfo(taskType, vis, eventID, timeoutType, scheduleAttempt) ==
    [taskType |-> taskType, vis |-> vis, eventID |-> eventID,
     timeoutType |-> timeoutType, scheduleAttempt |-> scheduleAttempt]

UserTimerTask(id, vis) == TimerTaskInfo("UserTimer", vis, id, "None", 0)

ActivityTimeoutTask(scheduleID, vis, timeoutType) ==
    TimerTaskInfo("ActivityTimeout", vis, scheduleID, timeoutType, 0)

RetryTimerTask(scheduleID, vis, attempt) ==
    TimerTaskInfo("RetryTimer", vis, scheduleID, "None", attempt)

DecisionTimeoutTask(scheduleID, vis, timeoutType, attempt) ==
    TimerTaskInfo("DecisionTimeout", vis, scheduleID, timeoutType, attempt)

WorkflowTimeoutTask(vis) == TimerTaskInfo("WorkflowTimeout", vis, 0, "None", 0)

DeleteHistoryEventTask(vis) == TimerTaskInfo("DeleteHistoryEvent", vis, 0, "None", 0)

\* --------------------------------------------- mutable state, timer builder
IsTimerExpired(expiry, referenceTime) == expiry <= referenceTime

RECURSIVE SortByExpiry(_, _)
SortByExpiry(ms, ids) ==
    IF ids = {} THEN <<>>
    ELSE LET first == CHOOSE i \in ids : \A j \in ids :
                          \/ ms.timers[i].expiry < ms.timers[j].expiry
                          \/ (ms.timers[i].expiry = ms.timers[j].expiry /\ i <= j)
         IN  <<first>> \o SortByExpiry(ms, ids \ {first})

\* tBuilder.GetUserTimers: the pending user timers in deadline order
GetUserTimers(ms) == SortByExpiry(ms, {id \in TimerIDs : ms.timers[id].pending})

\* tBuilder.GetActivityTimers: the timers of the pending activities in
\* deadline order; the heartbeat timer expires HeartbeatTimeout after the
\* last heartbeat and counts as created while the status bit is set
\* every timer carries the attempt of the activity it was built for
ActivityTimerSet(ms) ==
    LET ai == ms.activity
    IN  IF ~ai.pending THEN {}
        ELSE {[timeoutType |-> t, attempt |-> ai.attempt,
               expiry |-> ai.timeouts[t], taskCreated |-> t \in ai.created] :
                   t \in {u \in DOMAIN ai.timeouts : ai.timeouts[u] > 0}}
             \cup (IF ai.heartbeat
                   THEN {[timeoutType |-> "Heartbeat",
                          attempt |-> ai.attempt,
                          expiry |-> ai.lastHeartbeat + HeartbeatTimeout, taskCreated |-> ai.heartbeatCreated]}
                   ELSE {})

\* workflow.TimeoutType as a number, to order timers with the same deadline
TimeoutTypeRank(t) ==
    CASE t = "StartToClose" -> 0
      [] t = "ScheduleToStart" -> 1
      [] t = "ScheduleToClose" -> 2
      [] OTHER -> 3

RECURSIVE SortTimers(_)
SortTimers(tds) ==
    IF tds = {} THEN <<>>
    ELSE LET first == CHOOSE a \in tds : \A b \in tds :
                          \/ a.expiry < b.expiry
                          \/ /\ a.expiry = b.expiry
                             /\ TimeoutTypeRank(a.timeoutType) <= TimeoutTypeRank(b.timeoutType)
         IN  <<first>> \o SortTimers(tds \ {first})

GetActivityTimers(ms) == SortTimers(ActivityTimerSet(ms))

\* mutableState.CreateRetryTimer: a retry task if retry budget remains, and
\* then the activity's attempt is incremented
HasRetryBudget(ai) == ai.attempt < ai.maxAttempt

CreateRetryTimer(ms) == [ms EXCEPT !.activity.attempt = @ + 1]

\* the timer is no longer pending once its TimerFired event is added
AddTimerFiredEvent(ms, id) == [ms EXCEPT !.timers[id].pending = FALSE]

AddActivityTaskTimedOutEvent(ms) ==
    [ms EXCEPT !.activity.pending = FALSE, !.activity.timedOut = @ + 1]

\* context.scheduleNewDecision: a DecisionTaskScheduled event is appended if
\* no decision is pending; the decision gets the next schedule ID and is not
\* started. decisionScheduled counts the events appended,
\* scheduledWhilePending the calls made while a decision was pending
ScheduleNewDecision(ms) ==
    IF ms.hasPendingDecision THEN [ms EXCEPT !.scheduledWhilePending = @ + 1]
    ELSE [ms EXCEPT !.hasPendingDecision = TRUE,
                    !.decision = [scheduleID |-> @.scheduleID + 1, attempt |-> 0,
                                  started |-> FALSE],
                    !.decisionScheduled = @ + 1]

\* mutableState.GetPendingDecision(scheduleID)
GetPendingDecision(ms, scheduleID) ==
    ms.hasPendingDecision /\ ms.decision.scheduleID = scheduleID

\* mutableState.GetInFlightDecisionTask: a pending decision that was started
GetInFlightDecisionTask(ms) == ms.hasPendingDecision /\ ms.decision.started

\* AddDecisionTaskTimedOutEvent, AddDecisionTaskScheduleToStartTimeoutEvent
AddDecisionTaskTimedOutEvent(ms) ==
    [ms EXCEPT !.hasPendingDecision = FALSE, !.decisionTimedOut = @ + 1]

\* AddDecisionTaskFailedEvent(..., ForceCloseDecision, ...)
AddDecisionTaskFailedEvent(ms) ==
    [ms EXCEPT !.hasPendingDecision = FALSE, !.decisionFailed = @ + 1]

\* AddTimeoutWorkflowEvent: the run is closed as timed out
AddTimeoutWorkflowEvent(ms) ==
    [ms EXCEPT !.running = FALSE, !.workflowTimedOut = TRUE]

\* ------------------------------------------------ one handler's pass
\* what one load-mutate pass produced: the mutated in-memory state, the timer
\* tasks to persist, the user timers it added a TimerFired event for
\* acts: what the pass did for each activity timer it looked at
NoMutation(ms) ==
    [timerTasks |-> <<>>, ms |-> ms, err |-> Nil,
     scheduleNewDecision |-> FALSE,
     createDeletionTask |-> FALSE, updateHistory |-> FALSE, createNewTimer |-> FALSE, fired |-> {},
     acts |-> <<>>]

\* what the loop did for the timer td of the activity ai, with the attempt
\* the timer was built for and the activity's attempt and start when the
\* loop came to it
Act(td, ai, what) ==
    [timeoutType |-> td.timeoutType, attempt |-> td.attempt, started |-> ai.started,
     act |-> what, activityAttempt |-> ai.attempt]

RECURSIVE ExpireUserTimers(_, _, _)
\* the loop asking for a new decision whenever a timer fired
ExpireUserTimersAlwaysSchedule(r, tds, task) ==
    IF tds = <<>> THEN r
    ELSE LET id == Head(tds)
             ti == r.ms.timers[id]
         IN  IF IsTimerExpired(ti.expiry, task.vis)
             THEN IF ~ti.pending
                  THEN [r EXCEPT !.err = errFailedToAddTimerFiredEvent]
                  ELSE ExpireUserTimers(
                           [r EXCEPT !.ms = AddTimerFiredEvent(@, id),
                                     !.fired = @ \cup {id},
                                     !.scheduleNewDecision = TRUE],
                           Tail(tds), task)
             ELSE IF ~ti.taskCreated
                  THEN [r EXCEPT !.timerTasks = <<UserTimerTask(id, ti.expiry)>>,
                                 !.ms.timers[id].taskCreated = TRUE]
                  ELSE r

\* the loop going on after the first timer that is not expired: a task for
\* every timer that has none
ExpireUserTimersNoBreak(r, tds, task) ==
    IF tds = <<>> THEN r
    ELSE LET id == Head(tds)
             ti == r.ms.timers[id]
         IN  IF IsTimerExpired(ti.expiry, task.vis)
             THEN IF ~ti.pending
                  THEN [r EXCEPT !.err = errFailedToAddTimerFiredEvent]
                  ELSE ExpireUserTimers(
                           [r EXCEPT !.ms = AddTimerFiredEvent(@, id),
                                     !.fired = @ \cup {id},
                                     !.scheduleNewDecision = ~r.ms.hasPendingDecision],
                           Tail(tds), task)
             ELSE IF ~ti.taskCreated
                  THEN ExpireUserTimers(
                           [r EXCEPT !.timerTasks = Append(@, UserTimerTask(id, ti.expiry)),
                                     !.ms.timers[id].taskCreated = TRUE],
                           Tail(tds), task)
                  ELSE ExpireUserTimers(r, Tail(tds), task)

\* ExpireUserTimers: the loop over the user timers in expiry order
ExpireUserTimers(r, tds, task) ==
    IF tds = <<>> THEN r
    ELSE LET id == Head(tds)
             ti == r.ms.timers[id]
         IN  IF IsTimerExpired(ti.expiry, task.vis)
             THEN IF ~ti.pending
                  THEN [r EXCEPT !.err = errFailedToAddTimerFiredEvent]
                  ELSE ExpireUserTimers(
                           [r EXCEPT !.ms = AddTimerFiredEvent(@, id),
                                     !.fired = @ \cup {id},
                                     !.scheduleNewDecision = ~r.ms.hasPendingDecision],
                           Tail(tds), task)
             ELSE IF ~ti.taskCreated
                  THEN [r EXCEPT !.timerTasks = <<UserTimerTask(id, ti.expiry)>>,
                                 !.ms.timers[id].taskCreated = TRUE]
                  ELSE r

\* the heartbeat-created bit is cleared when a heartbeat task fires whose
\* visibility second is at or after LastTimeoutVisibility
ClearHeartbeatCreated(ms, timerTask) ==
    IF /\ ms.activity.pending
       /\ timerTask.eventID = ms.activity.scheduleID
       /\ timerTask.timeoutType = "Heartbeat"
       /\ ms.activity.lastTimeoutVisibility <= Unix(timerTask.vis)
    THEN [ms EXCEPT !.activity.heartbeatCreated = FALSE]
    ELSE ms

\* the ActivityTaskTimedOut event is added for ScheduleToClose and Heartbeat,
\* for StartToClose only if the activity was started, for ScheduleToStart
\* only if it was not
TimesOut(td, ai) ==
    CASE td.timeoutType = "StartToClose" -> ai.started
      [] td.timeoutType = "ScheduleToStart" -> ~ai.started
      [] OTHER -> TRUE

\* the status bit of a created timer task and LastTimeoutVisibility
MarkTimerCreated(ms, td) ==
    [ms EXCEPT !.activity.heartbeatCreated = IF td.timeoutType = "Heartbeat" THEN TRUE ELSE @,
               !.activity.created = IF td.timeoutType = "Heartbeat" THEN @
                                    ELSE @ \cup {td.timeoutType},
               !.activity.lastTimeoutVisibility = Unix(td.expiry)]

\* the expired timer td is retried and the ActivityTaskTimedOut event is
\* added all the same
RetryActivityAndTimeOut(r, td, referenceTime) ==
    [r EXCEPT !.ms = AddActivityTaskTimedOutEvent(CreateRetryTimer(@)),
              !.timerTasks = Append(@, RetryTimerTask(r.ms.activity.scheduleID,
                                                      referenceTime + 1,
                                                      r.ms.activity.attempt + 1)),
              !.createNewTimer = TRUE,
              !.updateHistory = TRUE,
              !.acts = @ \o <<Act(td, r.ms.activity, "retry"),
                               Act(td, r.ms.activity, "timedOut")>>]

\* CreateRetryTimer returned a task for the expired timer td: the task is
\* added to the timer tasks of the pass and the timeout is ignored
RetryActivity(r, td, referenceTime) ==
    [r EXCEPT !.ms = CreateRetryTimer(@),
              !.timerTasks = Append(@, RetryTimerTask(r.ms.activity.scheduleID,
                                                      referenceTime + 1,
                                                      r.ms.activity.attempt + 1)),
              !.createNewTimer = TRUE,
              !.acts = Append(@, Act(td, r.ms.activity, "retry"))]

RECURSIVE ExpireActivityTimers(_, _, _)
\* the loop without the check of the attempt the timer was built for
ExpireActivityTimersAnyAttempt(r, tds, referenceTime) ==
    IF tds = <<>> THEN r
    ELSE LET td == Head(tds)
             ai == r.ms.activity
             rest == Tail(tds)
         IN  IF ~ai.pending THEN ExpireActivityTimers(r, rest, referenceTime)
             ELSE IF IsTimerExpired(td.expiry, referenceTime)
             THEN IF td.timeoutType # "ScheduleToStart" /\ HasRetryBudget(ai)
                  THEN ExpireActivityTimers(RetryActivity(r, td, referenceTime),
                                            rest, referenceTime)
                  ELSE IF TimesOut(td, ai)
                  THEN ExpireActivityTimers(
                           [r EXCEPT !.ms = AddActivityTaskTimedOutEvent(@),
                                     !.updateHistory = TRUE,
                                     !.acts = Append(@, Act(td, ai, "timedOut"))],
                           rest, referenceTime)
                  ELSE ExpireActivityTimers([r EXCEPT !.acts = Append(@, Act(td, ai, "none"))],
                                            rest, referenceTime)
             ELSE IF ~td.taskCreated
                  THEN [r EXCEPT
                          !.timerTasks = Append(@, ActivityTimeoutTask(ai.scheduleID, td.expiry,
                                                                       td.timeoutType)),
                          !.ms = MarkTimerCreated(@, td),
                          !.createNewTimer = TRUE,
                          !.acts = Append(@, Act(td, ai, "created"))]
                  ELSE r

ExpireActivityTimers(r, tds, referenceTime) ==
    IF tds = <<>> THEN r
    ELSE LET td == Head(tds)
             ai == r.ms.activity
             rest == Tail(tds)
         IN  IF ~ai.pending THEN ExpireActivityTimers(r, rest, referenceTime)
             ELSE IF IsTimerExpired(td.expiry, referenceTime)
             THEN IF td.attempt < ai.attempt /\ td.timeoutType # "ScheduleToClose"
                  THEN ExpireActivityTimers([r EXCEPT !.acts = Append(@, Act(td, ai, "ignored"))],
                                            rest, referenceTime)
                  ELSE IF td.timeoutType # "ScheduleToStart" /\ HasRetryBudget(ai)
                  THEN ExpireActivityTimers(RetryActivity(r, td, referenceTime),
                                            rest, referenceTime)
                  ELSE IF TimesOut(td, ai)
                  THEN ExpireActivityTimers(
                           [r EXCEPT !.ms = AddActivityTaskTimedOutEvent(@),
                                     !.updateHistory = TRUE,
                                     !.acts = Append(@, Act(td, ai, "timedOut"))],
                           rest, referenceTime)
                  ELSE ExpireActivityTimers([r EXCEPT !.acts = Append(@, Act(td, ai, "none"))],
                                            rest, referenceTime)
             ELSE IF ~td.taskCreated
                  THEN [r EXCEPT
                          !.timerTasks = Append(@, ActivityTimeoutTask(ai.scheduleID, td.expiry,
                                                                       td.timeoutType)),
                          !.ms = MarkTimerCreated(@, td),
                          !.createNewTimer = TRUE,
                          !.acts = Append(@, Act(td, ai, "created"))]
                  ELSE r

\* ------------------------------------------------ one process(task) call
\* st: the persisted mutable state; tasks: timer tasks persisted by the call;
\* commits: commits issued to the store; committed: commits that succeeded;
\* stop: timerQueueProcessorBase.Stop() was called; fired: user timers whose
\* TimerFired event this call committed; loads: loads of the mutable state;
\* trace: the store and service calls of the handler with their results;
\* shardLost: another host took the shard during the call; acts: what the
\* handler's last pass did for each activity timer; pass: the mutation that
\* pass handed to updateWorkflowExecution
NoPass ==
    [timerTasks |-> <<>>, attempt |-> 0, timedOut |-> 0, scheduleNewDecision |-> FALSE,
     attemptLoaded |-> 0]

NewTimerCtx(st) ==
    [st |-> st, fired |-> {}, acts |-> <<>>, tasks |-> <<>>, commits |-> 0,
     committed |-> 0, stop |-> FALSE, loads |-> 0, trace |-> <<>>, shardLost |-> FALSE,
     pass |-> NoPass, verified |-> "none", lock |-> <<>>]

TRet(h, err) == [err |-> err, h |-> h]

Ev(op, err) == [err |-> err, op |-> op]

Log(h, op, err) == [h EXCEPT !.trace = Append(@, Ev(op, err))]

\* what the handler does with the execution lock of the run, in order:
\* "acquire" with the error of getOrCreateWorkflowExecution, "release" with
\* the error handed to the release handle, and "addActivityTask" where the
\* call to matching is made
LockEv(h, op, err) == [h EXCEPT !.lock = Append(@, Ev(op, err))]

\* what the store holds after the pass r is committed on top of st
CommittedState(st, r) ==
    LET ms == IF r.scheduleNewDecision THEN ScheduleNewDecision(r.ms) ELSE r.ms
    IN  [ms EXCEPT !.fired = [id \in TimerIDs |->
                                 st.fired[id] + IF id \in r.fired THEN 1 ELSE 0]]

\* what another writer did to the run between this handler's load and its
\* commit: nothing, an unrelated event ("signal"), the commit of another
\* delivery of the same task ("fired"), or the close of the workflow
ExtEvents == {"none", "signal", "fired", "close"}

Interfered(h, e, r) ==
    IF e = "fired"
    THEN [h EXCEPT !.st = CommittedState(h.st, r), !.tasks = @ \o r.timerTasks]
    ELSE IF e = "close" THEN [h EXCEPT !.st.running = FALSE]
    ELSE h

\* context.updateWorkflowExecutionWithDeleteTask: the CAS commit of the pass
\* r; e is what happened to the run since it was loaded, env.outcome the
\* store's answer otherwise
UpdateWorkflowExecutionWithDeleteTask(h, r, e, env) ==
    LET h1 == [h EXCEPT !.commits = @ + 1]
    IN  IF ~shardOwned THEN TRet(Log(h1, "commit", ErrShardOwnershipLost), ErrShardOwnershipLost)
        ELSE IF e # "none" THEN TRet(Log(h1, "commit", ErrConflict), ErrConflict)
        ELSE IF env.outcome = "error" THEN TRet(Log(h1, "commit", ErrPersistence), ErrPersistence)
        ELSE IF env.outcome = "bufferedLimit"
             THEN TRet(Log(h1, "commit", ErrBufferedEventsLimitExceeded),
                       ErrBufferedEventsLimitExceeded)
        ELSE TRet(Log([h1 EXCEPT !.st = CommittedState(h.st, r),
                                 !.tasks = @ \o r.timerTasks,
                                 !.committed = @ + 1,
                                 !.fired = @ \cup r.fired], "commit", Nil), Nil)

\* t.timerQueueProcessorBase.Stop()
StopProcessor(h) == Log([h EXCEPT !.stop = TRUE], "stop", Nil)

\* the recovery commit, context.updateWorkflowExecution, of the state ms
RecoveryCommit(h, ms, env) ==
    LET h1 == [h EXCEPT !.commits = @ + 1]
    IN  IF env.recovery = "shardLost"
        THEN TRet(Log([h1 EXCEPT !.shardLost = TRUE], "recoveryCommit", ErrShardOwnershipLost),
                  ErrShardOwnershipLost)
        ELSE IF env.recovery = "conflict"
             THEN TRet(Log(h1, "recoveryCommit", ErrConflict), ErrConflict)
        ELSE IF env.recovery = "commitError"
             THEN TRet(Log(h1, "recoveryCommit", ErrPersistence), ErrPersistence)
        ELSE TRet(Log([h1 EXCEPT !.st = ms, !.committed = @ + 1], "recoveryCommit", Nil), Nil)

\* updateWorkflowExecution after the commit returned
\* ErrBufferedEventsLimitExceeded: clear the cached state, reload, fail the
\* decision in flight, schedule a new one and commit that
RecoverFromBufferedEventsLimit(h, env) ==
    LET h1 == Log(h, "clear", Nil)
    IN  IF env.recovery = "loadError"
        THEN TRet(Log(h1, "reload", ErrPersistence), ErrPersistence)
        ELSE LET h2 == Log(h1, "reload", Nil)
                 ms == h2.st
             IN  IF GetInFlightDecisionTask(ms)
                 THEN LET h3 == Log(h2, "failDecision", Nil)
                          u == RecoveryCommit(h3, ScheduleNewDecision(AddDecisionTaskFailedEvent(ms)),
                                              env)
                      IN  IF env.recovery = "txidError" THEN TRet(h3, ErrPersistence)
                          ELSE IF u.err # Nil THEN u
                          ELSE TRet(u.h, ErrBufferedEventsLimitExceeded)
                 ELSE TRet(h2, ErrBufferedEventsLimitExceeded)

\* getDeleteWorkflowTasks answered: the timer task that deletes the history
\* of the run when its retention ends, after the times the model runs to,
\* is appended to the timer tasks of the pass
WithDeletionTask(r) ==
    IF r.createDeletionTask
    THEN [r EXCEPT !.timerTasks = @ \o <<DeleteHistoryEventTask(MaxTime + 1)>>]
    ELSE r

\* updateWorkflowExecution returning ShardOwnershipLost without stopping the
\* processor
UpdateWorkflowExecutionNoStop(h, r, e, env) ==
    IF r.createDeletionTask /\ env.deleteTasks = "error" THEN TRet(h, Nil)
    ELSE IF env.outcome = "txidError" THEN TRet(h, ErrPersistence)
    ELSE LET u == UpdateWorkflowExecutionWithDeleteTask(h, WithDeletionTask(r), e, env)
         IN  IF u.err = ErrBufferedEventsLimitExceeded
             THEN RecoverFromBufferedEventsLimit(u.h, env)
             ELSE u

\* updateWorkflowExecution: the commit of the pass r
UpdateWorkflowExecution(h, r, e, env) ==
    IF r.createDeletionTask /\ env.deleteTasks = "error" THEN TRet(h, Nil)
    ELSE IF env.outcome = "txidError" THEN TRet(h, ErrPersistence)
    ELSE LET u == UpdateWorkflowExecutionWithDeleteTask(h, WithDeletionTask(r), e, env)
         IN  IF u.err = ErrShardOwnershipLost THEN TRet(StopProcessor(u.h), u.err)
             ELSE IF u.err = ErrBufferedEventsLimitExceeded
             THEN RecoverFromBufferedEventsLimit(u.h, env)
             ELSE u

\* what the environment answers during one process(task) call: the task
\* filter, the load of the mutable state, what other writers do during each
\* attempt, the store's answer to a commit that does not conflict, the
\* version check, getDeleteWorkflowTasks, the matching service on each
\* attempt, the reload and commit of the buffered-events recovery, and
\* getOrCreateWorkflowExecution
Undisturbed == [a \in 1..ConditionalRetryCount |-> "none"]

MatchingUp == [a \in 1..ConditionalRetryCount |-> "ok"]

TimerEnv(filter, load, ext, outcome) ==
    [outcome |-> outcome, recovery |-> "ok", deleteTasks |-> "ok", filter |-> filter,
     load |-> load, ext |-> ext, verify |-> "ok", matching |-> MatchingUp,
     acquire |-> "ok"]

TimerEnvs ==
    {TimerEnv("reject", "ok", Undisturbed, "ok"),
     TimerEnv("error", "ok", Undisturbed, "ok"),
     TimerEnv("ok", "notExists", Undisturbed, "ok")}
    \cup {TimerEnv("ok", "ok", ext, outcome) :
              ext \in [1..ConditionalRetryCount -> ExtEvents], outcome \in {"ok", "error"}}

\* the answers used for the handlers of all task types: one deviation from
\* the undisturbed call at a time, and every combination of conflicts with
\* the store's answers to the commit and to the recovery
HandlerExt == [1..ConditionalRetryCount -> {"none", "signal"}]

HandlerEnvs ==
    {[TimerEnv("ok", "ok", Undisturbed, "ok") EXCEPT !.filter = f] : f \in {"reject", "error"}}
    \cup {[TimerEnv("ok", "ok", Undisturbed, "ok") EXCEPT !.load = l] :
              l \in {"notExists", "error"}}
    \cup {[TimerEnv("ok", "ok", Undisturbed, "ok") EXCEPT !.verify = v] :
              v \in {"stale", "error"}}
    \cup {[TimerEnv("ok", "ok", Undisturbed, "ok") EXCEPT !.deleteTasks = "error"]}
    \cup {[TimerEnv("ok", "ok", Undisturbed, "ok") EXCEPT !.acquire = "error"]}
    \cup {[TimerEnv("ok", "ok", Undisturbed, "ok") EXCEPT !.matching = m] :
              m \in [1..ConditionalRetryCount -> {"ok", "error"}]}
    \cup {TimerEnv("ok", "ok", ext, outcome) :
              ext \in HandlerExt, outcome \in {"ok", "error", "txidError"}}
    \cup {[TimerEnv("ok", "ok", ext, "bufferedLimit") EXCEPT !.recovery = rc] :
              ext \in HandlerExt,
              rc \in {"ok", "loadError", "txidError", "conflict", "commitError", "shardLost"}}

\* loadMutableStateForTimerTask
LoadMutableStateForTimerTask(h, env) ==
    LET h1 == [h EXCEPT !.loads = @ + 1]
    IN  IF env.load = "notExists" THEN TRet(Log(h1, "load", ErrEntityNotExists), ErrEntityNotExists)
        ELSE IF env.load = "error" THEN TRet(Log(h1, "load", ErrPersistence), ErrPersistence)
        ELSE TRet(Log(h1, "load", Nil), Nil)

\* verifyTaskVersion: (ok, err)
VerifyTaskVersion(env) ==
    IF env.verify = "error" THEN [err |-> ErrPersistence, ok |-> FALSE]
    ELSE [err |-> Nil, ok |-> env.verify = "ok"]

\* the handler's state after verifyTaskVersion answered v; verified keeps
\* the answer of the last check: "ok", "stale" (the versions differ) or "error"
Verified(h, v) ==
    [Log(h, "verify", v.err) EXCEPT
        !.verified = IF v.err # Nil THEN "error" ELSE IF v.ok THEN "ok" ELSE "stale"]

RECURSIVE ProcessExpiredUserTimer(_, _, _, _)
\* processExpiredUserTimer without the check that the workflow is running
ProcessExpiredUserTimerNoRunningCheck(h, task, env, attempt) ==
    IF attempt > ConditionalRetryCount THEN TRet(h, ErrMaxAttemptsExceeded)
    ELSE LET l == LoadMutableStateForTimerTask(h, env)
             r == ExpireUserTimers(NoMutation(l.h.st), GetUserTimers(l.h.st), task)
             e == env.ext[attempt]
             u == UpdateWorkflowExecution(Interfered(l.h, e, r), r, e, env)
         IN  IF l.err # Nil THEN l
             ELSE IF r.err # Nil THEN TRet(l.h, r.err)
             ELSE IF u.err = ErrConflict
                  THEN ProcessExpiredUserTimer(u.h, task, env, attempt + 1)
                  ELSE u

ProcessExpiredUserTimer(h, task, env, attempt) ==
    IF attempt > ConditionalRetryCount THEN TRet(h, ErrMaxAttemptsExceeded)
    ELSE LET l == LoadMutableStateForTimerTask(h, env)
             r == ExpireUserTimers(NoMutation(l.h.st), GetUserTimers(l.h.st), task)
             e == env.ext[attempt]
             u == UpdateWorkflowExecution(Interfered(l.h, e, r), r, e, env)
         IN  IF l.err # Nil THEN l
             ELSE IF ~l.h.st.running THEN TRet(l.h, Nil)
             ELSE IF r.err # Nil THEN TRet(l.h, r.err)
             ELSE IF u.err = ErrConflict
                  THEN ProcessExpiredUserTimer(u.h, task, env, attempt + 1)
                  ELSE u

\* what the pass r over the loaded state ms handed to the commit: the timer
\* tasks, the decision flag, the activity's attempt before and after, and the
\* number of ActivityTaskTimedOut events added
ActivityPass(ms, r) ==
    [timerTasks |-> r.timerTasks, attempt |-> r.ms.activity.attempt,
     timedOut |-> r.ms.activity.timedOut - ms.activity.timedOut, scheduleNewDecision |-> r.scheduleNewDecision,
     attemptLoaded |-> ms.activity.attempt]

RECURSIVE ProcessActivityTimeout(_, _, _, _)
\* processActivityTimeout asking for a new decision whenever the pass has
\* something to commit
ProcessActivityTimeoutScheduleOnAnyChange(h, timerTask, env, attempt) ==
    IF attempt > ConditionalRetryCount THEN TRet(h, ErrMaxAttemptsExceeded)
    ELSE LET l == LoadMutableStateForTimerTask(h, env)
             ms == ClearHeartbeatCreated(l.h.st, timerTask)
             r0 == ExpireActivityTimers(NoMutation(ms), GetActivityTimers(ms), now)
             r == [r0 EXCEPT !.scheduleNewDecision =
                                (r0.updateHistory \/ r0.createNewTimer)
                                /\ ~r0.ms.hasPendingDecision]
             e == env.ext[attempt]
             u == UpdateWorkflowExecution(Interfered(l.h, e, r), r, e, env)
         IN  IF l.err # Nil THEN l
             ELSE IF ~l.h.st.running THEN TRet(l.h, Nil)
             ELSE IF r.err # Nil THEN TRet(l.h, r.err)
             ELSE IF r.updateHistory \/ r.createNewTimer
             THEN IF u.err = ErrConflict
                  THEN ProcessActivityTimeout(u.h, timerTask, env, attempt + 1)
                  ELSE TRet([u.h EXCEPT !.acts = r.acts, !.pass = ActivityPass(ms, r)], Nil)
             ELSE TRet([l.h EXCEPT !.acts = r.acts, !.pass = ActivityPass(ms, r)], Nil)

ProcessActivityTimeout(h, timerTask, env, attempt) ==
    IF attempt > ConditionalRetryCount THEN TRet(h, ErrMaxAttemptsExceeded)
    ELSE LET l == LoadMutableStateForTimerTask(h, env)
             ms == ClearHeartbeatCreated(l.h.st, timerTask)
             r0 == ExpireActivityTimers(NoMutation(ms), GetActivityTimers(ms), now)
             r == [r0 EXCEPT !.scheduleNewDecision =
                                r0.updateHistory /\ ~r0.ms.hasPendingDecision]
             e == env.ext[attempt]
             u == UpdateWorkflowExecution(Interfered(l.h, e, r), r, e, env)
         IN  IF l.err # Nil THEN l
             ELSE IF ~l.h.st.running THEN TRet(l.h, Nil)
             ELSE IF r.err # Nil THEN TRet(l.h, r.err)
             ELSE IF r.updateHistory \/ r.createNewTimer
             THEN IF u.err = ErrConflict
                  THEN ProcessActivityTimeout(u.h, timerTask, env, attempt + 1)
                  ELSE TRet([u.h EXCEPT !.acts = r.acts, !.pass = ActivityPass(ms, r)], Nil)
             ELSE TRet([l.h EXCEPT !.acts = r.acts, !.pass = ActivityPass(ms, r)], Nil)

RECURSIVE ProcessDecisionTimeout(_, _, _, _)
\* processDecisionTimeout timing a sticky decision out on a ScheduleToStart
\* task of any attempt
ProcessDecisionTimeoutAnyAttempt(h, task, env, attempt) ==
    IF attempt > ConditionalRetryCount THEN TRet(h, ErrMaxAttemptsExceeded)
    ELSE LET l == LoadMutableStateForTimerTask(h, env)
             ms == l.h.st
             di == ms.decision
             v == VerifyTaskVersion(env)
             lv == Verified(l.h, v)
             scheduleNewDecision ==
                 CASE task.timeoutType = "StartToClose" -> di.attempt = task.scheduleAttempt
                   [] task.timeoutType = "ScheduleToStart" -> ~di.started /\ ms.sticky
                   [] OTHER -> FALSE
             r == [NoMutation(AddDecisionTaskTimedOutEvent(ms)) EXCEPT
                      !.scheduleNewDecision = TRUE]
             e == env.ext[attempt]
             lp == [lv EXCEPT !.pass = [NoPass EXCEPT !.scheduleNewDecision = TRUE]]
             u == UpdateWorkflowExecution(Interfered(lp, e, r), r, e, env)
         IN  IF l.err # Nil THEN l
             ELSE IF ~ms.running THEN TRet(l.h, Nil)
             ELSE IF ~GetPendingDecision(ms, task.eventID) THEN TRet(l.h, Nil)
             ELSE IF v.err # Nil THEN TRet(lv, v.err)
             ELSE IF ~v.ok THEN TRet(lv, Nil)
             ELSE IF scheduleNewDecision
             THEN IF u.err = ErrConflict
                  THEN ProcessDecisionTimeout(u.h, task, env, attempt + 1)
                  ELSE u
             ELSE TRet(lv, Nil)

ProcessDecisionTimeout(h, task, env, attempt) ==
    IF attempt > ConditionalRetryCount THEN TRet(h, ErrMaxAttemptsExceeded)
    ELSE LET l == LoadMutableStateForTimerTask(h, env)
             ms == l.h.st
             di == ms.decision
             v == VerifyTaskVersion(env)
             lv == Verified(l.h, v)
             scheduleNewDecision ==
                 CASE task.timeoutType = "StartToClose" -> di.attempt = task.scheduleAttempt
                   [] task.timeoutType = "ScheduleToStart" ->
                          di.attempt = task.scheduleAttempt /\ ~di.started /\ ms.sticky
                   [] OTHER -> FALSE
             r == [NoMutation(AddDecisionTaskTimedOutEvent(ms)) EXCEPT
                      !.scheduleNewDecision = TRUE]
             e == env.ext[attempt]
             lp == [lv EXCEPT !.pass = [NoPass EXCEPT !.scheduleNewDecision = TRUE]]
             u == UpdateWorkflowExecution(Interfered(lp, e, r), r, e, env)
         IN  IF l.err # Nil THEN l
             ELSE IF ~ms.running THEN TRet(l.h, Nil)
             ELSE IF ~GetPendingDecision(ms, task.eventID) THEN TRet(l.h, Nil)
             ELSE IF v.err # Nil THEN TRet(lv, v.err)
             ELSE IF ~v.ok THEN TRet(lv, Nil)
             ELSE IF scheduleNewDecision
             THEN IF u.err = ErrConflict
                  THEN ProcessDecisionTimeout(u.h, task, env, attempt + 1)
                  ELSE u
             ELSE TRet(lv, Nil)

\* processFn calling matching before the execution lock is released
ProcessFnDispatchLocked(h, task, env, attempt) ==
    LET a == LockEv(h, "acquire", IF env.acquire = "error" THEN ErrPersistence ELSE Nil)
        l == LoadMutableStateForTimerTask(a, env)
        ms == l.h.st
        ai == ms.activity
        v == VerifyTaskVersion(env)
        lv == Verified(l.h, v)
        merr == IF env.matching[attempt] = "ok" THEN Nil ELSE ErrPersistence
        o == IF env.acquire = "error" THEN TRet(a, ErrPersistence)
             ELSE IF l.err # Nil THEN l
             ELSE IF ~ms.running THEN TRet(l.h, Nil)
             ELSE IF ~(ai.pending /\ ai.scheduleID = task.eventID)
                     \/ task.scheduleAttempt < ai.attempt
                  THEN TRet(l.h, Nil)
             ELSE IF v.err # Nil THEN TRet(lv, v.err)
             ELSE IF ~v.ok THEN TRet(lv, Nil)
             ELSE TRet(Log(LockEv(lv, "addActivityTask", merr), "addActivityTask", merr), merr)
    IN  TRet(LockEv(o.h, "release", Nil), o.err)

\* processRetryTimer's processFn: one attempt to hand the activity to
\* matching. `defer release(nil)` is registered before err0 is tested, so it
\* also runs when the context was not obtained, and it runs after the
\* release(nil) that precedes the call to matching
ProcessFn(h, task, env, attempt) ==
    LET a == LockEv(h, "acquire", IF env.acquire = "error" THEN ErrPersistence ELSE Nil)
        l == LoadMutableStateForTimerTask(a, env)
        ms == l.h.st
        ai == ms.activity
        v == VerifyTaskVersion(env)
        lv == Verified(l.h, v)
        merr == IF env.matching[attempt] = "ok" THEN Nil ELSE ErrPersistence
        o == IF env.acquire = "error" THEN TRet(a, ErrPersistence)
             ELSE IF l.err # Nil THEN l
             ELSE IF ~ms.running THEN TRet(l.h, Nil)
             ELSE IF ~(ai.pending /\ ai.scheduleID = task.eventID)
                     \/ task.scheduleAttempt < ai.attempt
                  THEN TRet(l.h, Nil)
             ELSE IF v.err # Nil THEN TRet(lv, v.err)
             ELSE IF ~v.ok THEN TRet(lv, Nil)
             ELSE TRet(Log(LockEv(LockEv(lv, "release", Nil), "addActivityTask", merr),
                           "addActivityTask", merr), merr)
    IN  TRet(LockEv(o.h, "release", Nil), o.err)

RECURSIVE ProcessRetryTimer(_, _, _, _)
ProcessRetryTimer(h, task, env, attempt) ==
    IF attempt > ConditionalRetryCount THEN TRet(h, ErrMaxAttemptsExceeded)
    ELSE LET f == ProcessFn(h, task, env, attempt)
         IN  IF f.err = Nil THEN f
             ELSE ProcessRetryTimer(f.h, task, env, attempt + 1)

RECURSIVE ProcessWorkflowTimeout(_, _, _, _)
\* processWorkflowTimeout retrying after every failed commit
ProcessWorkflowTimeoutRetryAnyError(h, task, env, attempt) ==
    IF attempt > ConditionalRetryCount THEN TRet(h, ErrMaxAttemptsExceeded)
    ELSE LET l == LoadMutableStateForTimerTask(h, env)
             ms == l.h.st
             v == VerifyTaskVersion(env)
             lv == Verified(l.h, v)
             r == [NoMutation(AddTimeoutWorkflowEvent(ms)) EXCEPT !.createDeletionTask = TRUE]
             e == env.ext[attempt]
             u == UpdateWorkflowExecution(Interfered(lv, e, r), r, e, env)
         IN  IF l.err # Nil THEN l
             ELSE IF ~ms.running THEN TRet(l.h, Nil)
             ELSE IF v.err # Nil THEN TRet(lv, v.err)
             ELSE IF ~v.ok THEN TRet(lv, Nil)
             ELSE IF u.err # Nil
                  THEN ProcessWorkflowTimeout(u.h, task, env, attempt + 1)
                  ELSE u

ProcessWorkflowTimeout(h, task, env, attempt) ==
    IF attempt > ConditionalRetryCount THEN TRet(h, ErrMaxAttemptsExceeded)
    ELSE LET l == LoadMutableStateForTimerTask(h, env)
             ms == l.h.st
             v == VerifyTaskVersion(env)
             lv == Verified(l.h, v)
             r == [NoMutation(AddTimeoutWorkflowEvent(ms)) EXCEPT !.createDeletionTask = TRUE]
             e == env.ext[attempt]
             u == UpdateWorkflowExecution(Interfered(lv, e, r), r, e, env)
         IN  IF l.err # Nil THEN l
             ELSE IF ~ms.running THEN TRet(l.h, Nil)
             ELSE IF v.err # Nil THEN TRet(lv, v.err)
             ELSE IF ~v.ok THEN TRet(lv, Nil)
             ELSE IF u.err = ErrConflict
                  THEN ProcessWorkflowTimeout(u.h, task, env, attempt + 1)
                  ELSE u

\* timerQueueProcessorBase.processDeleteHistoryEvent: the history rows of the
\* run are deleted
ProcessDeleteHistoryEvent(h, task, env) ==
    IF env.load = "notExists" THEN TRet(Log(h, "deleteHistory", ErrEntityNotExists),
                                        ErrEntityNotExists)
    ELSE IF env.outcome = "error" THEN TRet(Log(h, "deleteHistory", ErrPersistence),
                                            ErrPersistence)
    ELSE TRet(Log(h, "deleteHistory", Nil), Nil)

\* the result of process(timerTask); filter: the answer of the task filter;
\* handlerErr: what the handler returned; acks: calls of completeTimerTask
ProcessResult(h, filter, err, handlerErr, acks) ==
    [err |-> err, h |-> h, filter |-> filter, handlerErr |-> handlerErr, acks |-> acks,
     ack |-> acks > 0]

NoHandler == "no handler"

\* process(timerTask) treating EntityNotExists as any other handler error
CompleteTimerTaskNotExistsFails(o) ==
    IF o.err # Nil THEN ProcessResult(o.h, "ok", o.err, o.err, 0)
    ELSE ProcessResult(o.h, "ok", Nil, Nil, 1)

\* process(timerTask) after the handler returned o: the task is completed
\* unless the handler failed with an error other than EntityNotExists
CompleteTimerTask(o) ==
    IF o.err = ErrEntityNotExists THEN ProcessResult(o.h, "ok", Nil, o.err, 1)
    ELSE IF o.err # Nil THEN ProcessResult(o.h, "ok", o.err, o.err, 0)
    ELSE ProcessResult(o.h, "ok", Nil, Nil, 1)

\* the handlers of the form
\*   context, release, err0 := getOrCreateWorkflowExecution(...)
\*   if err0 != nil { return err0 }
\*   defer func() { release(retError) }()
WithExecutionLock(h, timerTask, env) ==
    IF env.acquire = "error"
    THEN TRet(LockEv(h, "acquire", ErrPersistence), ErrPersistence)
    ELSE LET a == LockEv(h, "acquire", Nil)
             o == CASE timerTask.taskType = "UserTimer" ->
                          ProcessExpiredUserTimer(a, timerTask, env, 1)
                    [] timerTask.taskType = "ActivityTimeout" ->
                          ProcessActivityTimeout(a, timerTask, env, 1)
                    [] timerTask.taskType = "DecisionTimeout" ->
                          ProcessDecisionTimeout(a, timerTask, env, 1)
                    [] timerTask.taskType = "WorkflowTimeout" ->
                          ProcessWorkflowTimeout(a, timerTask, env, 1)
         IN  TRet(LockEv(o.h, "release", o.err), o.err)

\* process(timerTask): filter, dispatch by type, ack
ProcessTimerTask(h, timerTask, env) ==
    IF env.filter = "error" THEN ProcessResult(h, "error", ErrFilter, NoHandler, 0)
    ELSE IF env.filter = "reject" THEN ProcessResult(h, "reject", Nil, NoHandler, 1)
    ELSE CompleteTimerTask(
              CASE timerTask.taskType = "UserTimer" ->
                          WithExecutionLock(h, timerTask, env)
                    [] timerTask.taskType = "ActivityTimeout" ->
                          WithExecutionLock(h, timerTask, env)
                    [] timerTask.taskType = "DecisionTimeout" ->
                          WithExecutionLock(h, timerTask, env)
                    [] timerTask.taskType = "WorkflowTimeout" ->
                          WithExecutionLock(h, timerTask, env)
                    [] timerTask.taskType = "RetryTimer" ->
                          ProcessRetryTimer(h, timerTask, env, 1)
                    [] timerTask.taskType = "DeleteHistoryEvent" ->
                          ProcessDeleteHistoryEvent(h, timerTask, env))

\* --------------------------------------------------------------- actions
\* a run with nothing pending
IdleWorkflow ==
    [timers |-> [id \in TimerIDs |->
                    [expiry |-> 0, pending |-> FALSE, taskCreated |-> FALSE]],
     activity |-> [created |-> {},
                   scheduleID |-> 1, attempt |-> 0, pending |-> FALSE,
                   timeouts |-> [t \in {"StartToClose", "ScheduleToStart",
                                        "ScheduleToClose"} |-> 0],
                   heartbeat |-> FALSE, lastHeartbeat |-> 0,
                   heartbeatCreated |-> FALSE, maxAttempt |-> 0,
                   timedOut |-> 0, started |-> TRUE, lastTimeoutVisibility |-> 0],
     hasPendingDecision |-> FALSE, scheduledWhilePending |-> 0,
     decision |-> [scheduleID |-> 0, attempt |-> 0, started |-> FALSE],
     decisionScheduled |-> 0, decisionTimedOut |-> 0, decisionFailed |-> 0,
     running |-> TRUE, workflowTimedOut |-> FALSE,
     fired |-> [id \in TimerIDs |-> 0],
     sticky |-> FALSE]

\* a run with its user timers started and a task persisted for the earliest
UserTimerWorkflow(expiry2) ==
    [IdleWorkflow EXCEPT
        !.timers = [id \in TimerIDs |->
                       [expiry |-> IF id = 1 THEN 1 ELSE expiry2, pending |-> TRUE,
                        taskCreated |-> id = 1]]]

\* a run with one activity started at time 0 and its heartbeat task persisted
ActivityWorkflow ==
    [IdleWorkflow EXCEPT
        !.activity.pending = TRUE,
        !.activity.heartbeat = TRUE,
        !.activity.heartbeatCreated = TRUE,
        !.activity.lastTimeoutVisibility = Unix(HeartbeatTimeout)]

\* a run with a pending user timer, a started activity (schedule ID 1) whose
\* StartToClose timer is due at 1 and has its task and whose ScheduleToClose
\* timer is due at 2, and, if hasDecision, a pending decision (schedule ID 2)
HandlerWorkflow(hasDecision, decisionStarted, maxAttempt) ==
    [IdleWorkflow EXCEPT
        !.hasPendingDecision = hasDecision,
        !.decision = [scheduleID |-> 2, attempt |-> 0, started |-> decisionStarted],
        !.decisionScheduled = IF hasDecision THEN 1 ELSE 0,
        !.sticky = TRUE,
        !.timers[1] = [expiry |-> 1, pending |-> TRUE, taskCreated |-> TRUE],
        !.activity.pending = TRUE,
        !.activity.maxAttempt = maxAttempt,
        !.activity.timeouts = [t \in {"StartToClose", "ScheduleToStart", "ScheduleToClose"} |->
                                  CASE t = "StartToClose" -> 1
                                    [] t = "ScheduleToClose" -> 2
                                    [] OTHER -> 0],
        !.activity.created = {"StartToClose"}]

\* one task of each type, due at time 1
HandlerTasks ==
    {UserTimerTask(1, 1),
     ActivityTimeoutTask(1, 1, "StartToClose"),
     DecisionTimeoutTask(2, 1, "StartToClose", 0),
     DecisionTimeoutTask(2, 1, "ScheduleToStart", 0),
     WorkflowTimeoutTask(1),
     RetryTimerTask(1, 1, 0),
     DeleteHistoryEventTask(1)}

TimerStart(wf, tasks) ==
    /\ twf = wf
    /\ timerTasks = tasks
    /\ acked = {}
    /\ inflight = [w \in Workers |-> 0]
    /\ now = 0
    /\ shardOwned = TRUE
    /\ status = "Running"
    /\ tcall = {}

Init ==
    /\ InitReplicator
    /\ TimerStart(UserTimerWorkflow(MaxTime), <<UserTimerTask(1, 1)>>)

InitTimer ==
    /\ InitReplicator
    /\ \E expiry2 \in 1..MaxTime :
          TimerStart(UserTimerWorkflow(expiry2), <<UserTimerTask(1, 1)>>)

\* the user timers of a run: each one not pending (never started, fired or
\* cancelled) or pending with a deadline and with or without a persisted task
UserTimerInfos ==
    {[expiry |-> 0, pending |-> FALSE, taskCreated |-> FALSE]}
    \cup [pending : {TRUE}, expiry : 1..MaxTime, taskCreated : BOOLEAN]

\* a run with any user timers and one UserTimer task in the queue, left by
\* a timer of the run that may since have been fired, cancelled or restarted
InitUserTimers ==
    /\ InitReplicator
    /\ \E timers \in [TimerIDs -> UserTimerInfos], vis \in 1..MaxTime :
          TimerStart([IdleWorkflow EXCEPT !.timers = timers], <<UserTimerTask(1, vis)>>)

\* the timeouts of an activity in ticks, 0 for a timeout that is not set
ActivityTimeouts == [{"StartToClose", "ScheduleToStart", "ScheduleToClose"} -> 0..MaxTimeout]

\* the first type, in workflow.TimeoutType order, of the timeouts due at 1
FirstDue(timeouts) ==
    CHOOSE t \in DOMAIN timeouts :
        /\ timeouts[t] = 1
        /\ \A u \in DOMAIN timeouts :
              timeouts[u] = 1 => TimeoutTypeRank(t) <= TimeoutTypeRank(u)

\* a run with one pending activity, started or not, at any attempt within
\* its retry budget, with any timeouts of which one is due at 1 and has its
\* task in the queue, and with or without a pending decision
InitActivityTimers ==
    /\ InitReplicator
    /\ \E timeouts \in ActivityTimeouts, started \in BOOLEAN, hasDecision \in BOOLEAN,
          maxAttempt \in 0..MaxAttempt, attempt \in 0..MaxAttempt :
          /\ attempt <= maxAttempt
          /\ \E t \in DOMAIN timeouts : timeouts[t] = 1
          /\ TimerStart([IdleWorkflow EXCEPT
                             !.hasPendingDecision = hasDecision,
                             !.decision = [scheduleID |-> 2, attempt |-> 0, started |-> FALSE],
                             !.decisionScheduled = IF hasDecision THEN 1 ELSE 0,
                             !.activity.pending = TRUE,
                             !.activity.started = started,
                             !.activity.attempt = attempt,
                             !.activity.maxAttempt = maxAttempt,
                             !.activity.timeouts = timeouts,
                             !.activity.created = {FirstDue(timeouts)}],
                        <<ActivityTimeoutTask(1, 1, FirstDue(timeouts))>>)

\* a run with or without a pending decision (schedule ID 2), started or
\* not, at any attempt, with the sticky task list enabled or not, and one
\* DecisionTimeout task due at 1 of either type, for the decision or for an
\* earlier one (schedule ID 1), of any attempt
InitDecisionTimers ==
    /\ InitReplicator
    /\ \E hasDecision \in BOOLEAN, started \in BOOLEAN, sticky \in BOOLEAN,
          attempt \in 0..MaxAttempt, scheduleID \in 1..2,
          timeoutType \in {"StartToClose", "ScheduleToStart"},
          scheduleAttempt \in 0..MaxAttempt :
          /\ started => hasDecision
          /\ TimerStart([IdleWorkflow EXCEPT
                             !.hasPendingDecision = hasDecision,
                             !.decision = [scheduleID |-> 2, attempt |-> attempt,
                                           started |-> started],
                             !.decisionScheduled = IF hasDecision THEN 1 ELSE 0,
                             !.sticky = sticky],
                        <<DecisionTimeoutTask(scheduleID, 1, timeoutType, scheduleAttempt)>>)

\* a run, running or closed, whose activity (schedule ID 1) is pending or
\* not at any attempt, and one RetryTimer task due at 1 for the activity or
\* for another one, of any attempt
InitRetryTimers ==
    /\ InitReplicator
    /\ \E running \in BOOLEAN, pending \in BOOLEAN, attempt \in 0..MaxAttempt,
          scheduleID \in 1..2, scheduleAttempt \in 0..MaxAttempt :
          TimerStart([IdleWorkflow EXCEPT
                         !.running = running,
                         !.activity.pending = pending,
                         !.activity.started = FALSE,
                         !.activity.attempt = attempt,
                         !.activity.maxAttempt = MaxAttempt],
                     <<RetryTimerTask(scheduleID, 1, scheduleAttempt)>>)

InitHeartbeat ==
    /\ InitReplicator
    /\ TimerStart(ActivityWorkflow,
                  <<ActivityTimeoutTask(1, HeartbeatTimeout, "Heartbeat")>>)

\* the poll loop hands a due task that is not acked to an idle worker; the
\* same task may be handed out again before it is acked (redelivery,
\* duplicate delivery)
Dispatch ==
    /\ status = "Running"
    /\ \E w \in Workers, i \in 1..Len(timerTasks) :
          /\ inflight[w] = 0
          /\ i \notin acked
          /\ timerTasks[i].vis <= now
          /\ inflight' = [inflight EXCEPT ![w] = i]
    /\ tcall' = {}
    /\ UNCHANGED <<twf, timerTasks, acked, now, shardOwned, status>>
    /\ UNCHANGED <<replicatorVars, historyVars>>

\* what is kept of one process(task) call
TimerCallRecord(taskID, task, o) ==
    [err |-> o.err, fired |-> o.h.fired, acts |-> o.h.acts, task |-> task,
     commits |-> o.h.commits,
     committed |-> o.h.committed, stop |-> o.h.stop, loads |-> o.h.loads,
     trace |-> o.h.trace, pass |-> o.h.pass, verified |-> o.h.verified,
     lock |-> o.h.lock, filter |-> o.filter, handlerErr |-> o.handlerErr,
     acks |-> o.acks, taskID |-> taskID]

\* a worker runs process(task) with one of the answers in envs
ProcessWith(envs) ==
    \E w \in Workers :
        /\ inflight[w] # 0
        /\ \E env \in envs :
              \E o \in {ProcessTimerTask(NewTimerCtx(twf), timerTasks[inflight[w]], env)} :
                  /\ Len(timerTasks) + Len(o.h.tasks) <= MaxTimerTasks
                  /\ twf' = o.h.st
                  /\ timerTasks' = timerTasks \o o.h.tasks
                  /\ acked' = IF o.ack THEN acked \cup {inflight[w]} ELSE acked
                  /\ status' = IF o.h.stop THEN "Stopped" ELSE status
                  /\ shardOwned' = (shardOwned /\ ~o.h.shardLost)
                  /\ tcall' = {TimerCallRecord(inflight[w], timerTasks[inflight[w]], o)}
        /\ inflight' = [inflight EXCEPT ![w] = 0]
        /\ UNCHANGED now
        /\ UNCHANGED <<replicatorVars, historyVars>>

Process == ProcessWith(TimerEnvs)

\* process(task) undisturbed, or with a signal arriving during an attempt,
\* the commit succeeding or failing
ProcessActivity ==
    ProcessWith({TimerEnv("ok", "ok", ext, outcome) :
                     ext \in HandlerExt, outcome \in {"ok", "error"}})

\* process(task) of any task type under every answer of the environment
ProcessAny == ProcessWith(HandlerEnvs)

AdvanceTime ==
    /\ now < MaxTime
    /\ now' = now + 1
    /\ tcall' = {}
    /\ UNCHANGED <<twf, timerTasks, acked, inflight, shardOwned, status>>
    /\ UNCHANGED <<replicatorVars, historyVars>>

\* RecordActivityTaskHeartbeat: only the last heartbeat time is updated
RecordHeartbeat ==
    /\ twf.running
    /\ twf.activity.pending
    /\ twf.activity.lastHeartbeat < now
    /\ twf' = [twf EXCEPT !.activity.lastHeartbeat = now]
    /\ tcall' = {}
    /\ UNCHANGED <<timerTasks, acked, inflight, now, shardOwned, status>>
    /\ UNCHANGED <<replicatorVars, historyVars>>

\* another host takes the shard: the range token changes
LoseShard ==
    /\ shardOwned
    /\ shardOwned' = FALSE
    /\ tcall' = {}
    /\ UNCHANGED <<twf, timerTasks, acked, inflight, now, status>>
    /\ UNCHANGED <<replicatorVars, historyVars>>

InitHandlers ==
    /\ InitReplicator
    /\ \E task \in HandlerTasks, hasDecision \in BOOLEAN, decisionStarted \in BOOLEAN,
          maxAttempt \in 0..MaxAttempt :
          /\ decisionStarted => hasDecision
          /\ TimerStart(HandlerWorkflow(hasDecision, decisionStarted, maxAttempt), <<task>>)

NextTimer ==
    \/ Dispatch
    \/ Process
    \/ AdvanceTime
    \/ LoseShard

NextActivityTimers ==
    \/ Dispatch
    \/ ProcessActivity
    \/ AdvanceTime

NextHeartbeat ==
    \/ Dispatch
    \/ Process
    \/ AdvanceTime
    \/ RecordHeartbeat
    \/ LoseShard

NextHandlers ==
    \/ Dispatch
    \/ ProcessAny
    \/ AdvanceTime
    \/ LoseShard

Spec == Init /\ [][Next]_vars

\* the timer processor on a run with user timers
SpecTimer == InitTimer /\ [][NextTimer]_vars

\* the timer processor on tasks of every type
SpecHandlers == InitHandlers /\ [][NextHandlers]_vars

\* the timer processor on a run with a heartbeating activity
SpecHeartbeat == InitHeartbeat /\ [][NextHeartbeat]_vars

\* the timer processor on a run with any user timers
SpecUserTimers == InitUserTimers /\ [][NextTimer]_vars

\* the timer processor on a run with an activity with any timeouts
SpecActivityTimers == InitActivityTimers /\ [][NextActivityTimers]_vars

\* the timer processor on a run with a decision and a DecisionTimeout task
SpecDecisionTimers == InitDecisionTimers /\ [][NextHandlers]_vars

\* the timer processor on a run with an activity and a RetryTimer task
SpecRetryTimers == InitRetryTimers /\ [][NextHandlers]_vars

\* the history manager on the events table of one run
SpecHistory == Init /\ [][NextHistory]_vars

\* ============================================================== properties
\* the paths of ApplyEvents on which ApplyOtherEvents was reached
ApplyOtherEventsPaths ==
    {"duplicate", "retryBuffer", "bufferFull", "buffered", "applyFailed", "applied"}

\* C1. Buffering safety: every batch whose first event is not
\* WorkflowExecutionStarted that reaches ApplyReplicationTask, directly from
\* ApplyOtherEvents or from FlushBuffer, has firstEventID equal to the
\* mutable state's nextEventID at the moment it is applied.
BufferingSafety ==
    \A c \in call : \A i \in 1..Len(c.applied) :
        c.applied[i].firstEventID = c.applied[i].preNextEventID

\* a call that applied the incoming batch and then a buffered one, after an
\* earlier reset of the run
BufferingSafetyWitness ==
    \E c \in call :
        /\ Len(c.applied) >= 2
        /\ ~c.applied[1].fromBuffer
        /\ c.applied[2].fromBuffer
        /\ uuidCtr > 0

\* C2. Version monotonicity: across successful ApplyEvents calls that apply
\* events, the run's lastWriteVersion never decreases, and lastWriteEventID
\* never decreases while the version is unchanged; batches applied from the
\* buffer by FlushBuffer included. Stated for the calls that do not reset
\* the run (a conflict reset rewinds both on purpose), in which no store
\* operation fails, and that start with no flush left unfinished by an
\* earlier failed call (no buffered batch keyed at nextEventID).
VersionMonotonicity ==
    [][\A c \in call' :
          (call = {} /\ store.exists /\ c.result = Nil /\ Len(c.applied) > 0
             /\ c.resetTo = 0 /\ c.fail = 0
             /\ store.nextEventID \notin DOMAIN store.buffer) =>
              /\ store'.lastWriteVersion >= store.lastWriteVersion
              /\ (store'.lastWriteVersion = store.lastWriteVersion =>
                     store'.lastWriteEventID >= store.lastWriteEventID)]_vars

\* a worker finishes process(task) in this step
ProcessStep == \E w \in Workers : inflight[w] # 0 /\ inflight'[w] = 0

\* C3. At-most-once firing: over any deliveries of the same timer task
\* (redelivery, duplicates, commits of other deliveries between load and
\* commit), at most one TimerFired event is ever committed for a user timer;
\* a delivery commits a TimerFired event only for a timer that was pending
\* and due on a running workflow, so a delivery that finds the timer no
\* longer pending or the workflow no longer running commits none.
AtMostOnceFiring ==
    [][/\ \A id \in TimerIDs : twf'.fired[id] <= 1
       /\ ProcessStep =>
            \A c \in tcall' : \A id \in c.fired :
                /\ twf.running
                /\ twf'.running
                /\ twf.timers[id].pending
                /\ twf.fired[id] = 0
                /\ twf'.fired[id] = 1
                /\ ~twf'.timers[id].pending
                /\ IsTimerExpired(twf.timers[id].expiry, timerTasks[c.taskID].vis)
                /\ c.err = Nil
                /\ c.taskID \in acked']_vars

\* a user timer task delivered again after its timer fired: acked, and no
\* second event
AtMostOnceFiringWitness ==
    \E c \in tcall :
        /\ timerTasks[c.taskID].taskType = "UserTimer"
        /\ twf.running
        /\ twf.fired[timerTasks[c.taskID].eventID] = 1
        /\ c.fired = {}
        /\ c.commits > 0
        /\ c.err = Nil
        /\ c.taskID \in acked

HeartbeatTimerDedup ==
    \A i, j \in 1..Len(timerTasks) :
        (/\ i < j
         /\ i \notin acked
         /\ j \notin acked
         /\ timerTasks[i].taskType = "ActivityTimeout"
         /\ timerTasks[j].taskType = "ActivityTimeout"
         /\ timerTasks[i].timeoutType = "Heartbeat"
         /\ timerTasks[j].timeoutType = "Heartbeat"
         /\ timerTasks[i].eventID = timerTasks[j].eventID) =>
            Unix(timerTasks[i].vis) # Unix(timerTasks[j].vis)

\* C4 as claimed: whenever the version gate resets the mutable state to
\* ri.lastEventID, the state it returns has nextEventID = ri.lastEventID + 1
\* and a fresh runID, and the apply of the incoming batch then succeeds
\* (stated for the calls in which no store operation fails).
ResetThenApplySucceeds ==
    \A c \in call :
        (c.resetTo # 0 /\ c.fail = 0) =>
            /\ c.gate.ms.nextEventID = c.resetTo + 1
            /\ c.result = Nil

\* C4 as amended: after a reset to ri.lastEventID the gate's mutable state has
\* nextEventID = ri.lastEventID + 1 and a run ID never used before; the
\* incoming batch is then applied only when its firstEventID is
\* ri.lastEventID + 1 (without error unless the store fails), dropped when it
\* is lower, and when it is higher buffered under forceBufferEvents and
\* otherwise refused with ErrRetryBufferEvents.
ConflictResolutionSoundness ==
    [][\A c \in call' :
          c.resetTo # 0 =>
              /\ c.gate.ms.nextEventID = c.resetTo + 1
              /\ c.gate.ms.runID > uuidCtr
              /\ c.gate.ms.runID # store.runID
              /\ c.gate.st = c.gate.ms
              /\ (c.req.firstEventID = c.resetTo + 1 =>
                     /\ c.path \in {"applied", "applyFailed"}
                     /\ c.result \in {Nil, ErrPersistence}
                     /\ (c.fail = 0 => c.result = Nil))
              /\ (c.req.firstEventID < c.resetTo + 1 =>
                     c.path = "duplicate" /\ c.result = Nil)
              /\ (c.req.firstEventID > c.resetTo + 1 /\ ~c.req.forceBufferEvents =>
                     c.path = "retryBuffer" /\ c.result = ErrRetryBufferEvents)
              /\ (c.req.firstEventID > c.resetTo + 1 /\ c.req.forceBufferEvents =>
                     c.path = "buffered" /\ c.result \in {Nil, ErrPersistence})]_vars

\* a reset after which the incoming batch was applied without error
ConflictResolutionWitness ==
    \E c \in call : c.resetTo # 0 /\ c.path = "applied" /\ c.result = Nil

\* C7 as claimed: a non-start batch arriving with firstEventID above the run's
\* nextEventID and forceBufferEvents false makes ApplyEvents return
\* ErrRetryBufferEvents with no mutation (stated for the calls in which no
\* store operation fails).
RetryBufferOnArrival ==
    [][\A c \in call' :
          (call = {} /\ store.exists /\ ~c.req.start /\ c.fail = 0
             /\ c.req.firstEventID > store.nextEventID
             /\ ~c.req.forceBufferEvents) =>
              /\ c.result = ErrRetryBufferEvents
              /\ store' = store]_vars

\* C7 as amended: when the batch reaches the apply/buffer decision
\* (ApplyOtherEvents, after the pre-flush and the version gate) with
\* firstEventID above the mutable state's nextEventID and forceBufferEvents
\* false, ApplyEvents returns ErrRetryBufferEvents and ApplyOtherEvents
\* mutates nothing: the in-memory and the persisted mutable state are the
\* ones the gate handed on, nothing is applied and nothing is notified.
RetryBufferNoMutation ==
    \A c \in call :
        (c.path \in ApplyOtherEventsPaths
           /\ c.req.firstEventID > c.gate.ms.nextEventID
           /\ ~c.req.forceBufferEvents) =>
            /\ c.result = ErrRetryBufferEvents
            /\ c.ms = c.gate.ms
            /\ store = c.gate.st
            /\ Len(c.applied) = c.gate.applied
            /\ c.notified = c.gate.notified

\* an out-of-order batch refused while the buffer already holds a batch
RetryBufferWitness ==
    \E c \in call :
        /\ c.path = "retryBuffer"
        /\ c.req.firstEventID > c.gate.ms.nextEventID
        /\ DOMAIN c.gate.ms.buffer # {}

\* C8 as claimed: a non-start batch arriving with firstEventID above the run's
\* nextEventID and forceBufferEvents true is stored in the buffer under its
\* firstEventID and persisted, with nextEventID, lastWriteVersion and
\* lastWriteEventID unchanged, nothing applied and nothing emitted (stated
\* for the calls in which no store operation fails).
ForceBufferOnArrival ==
    [][\A c \in call' :
          (call = {} /\ store.exists /\ ~c.req.start /\ c.fail = 0
             /\ c.req.firstEventID > store.nextEventID
             /\ c.req.forceBufferEvents) =>
              /\ c.req.firstEventID \in DOMAIN store'.buffer
              /\ store'.nextEventID = store.nextEventID
              /\ store'.lastWriteVersion = store.lastWriteVersion
              /\ store'.lastWriteEventID = store.lastWriteEventID
              /\ c.applied = <<>>
              /\ c.notified = 0]_vars

\* C8 as amended: when the batch reaches the apply/buffer decision with
\* firstEventID above the mutable state's nextEventID and forceBufferEvents
\* true, ApplyOtherEvents leaves nextEventID, lastWriteVersion,
\* lastWriteEventID and the history as the gate handed them on, applies no
\* event and notifies no processor; unless the buffer is at capacity or the
\* store update fails (an error is returned and nothing is persisted), the
\* batch is in the buffer under its firstEventID and the buffer is persisted.
ForceBufferFrame ==
    \A c \in call :
        (c.path \in ApplyOtherEventsPaths
           /\ c.req.firstEventID > c.gate.ms.nextEventID
           /\ c.req.forceBufferEvents) =>
            /\ c.ms.nextEventID = c.gate.ms.nextEventID
            /\ c.ms.lastWriteVersion = c.gate.ms.lastWriteVersion
            /\ c.ms.lastWriteEventID = c.gate.ms.lastWriteEventID
            /\ c.ms.hist = c.gate.ms.hist
            /\ Len(c.applied) = c.gate.applied
            /\ c.notified = c.gate.notified
            /\ c.result \in {Nil, ErrFailedToBuffer, ErrPersistence}
            /\ (c.result = ErrFailedToBuffer <=>
                   /\ c.req.firstEventID \notin DOMAIN c.gate.ms.buffer
                   /\ Cardinality(DOMAIN c.gate.ms.buffer) >= MaxBuffered)
            /\ (c.result = Nil =>
                   /\ c.req.firstEventID \in DOMAIN store.buffer
                   /\ store.buffer[c.req.firstEventID] = BufferTask(c.req)
                   /\ \A k \in DOMAIN c.gate.ms.buffer \ {c.req.firstEventID} :
                         k \in DOMAIN store.buffer /\ store.buffer[k] = c.gate.ms.buffer[k]
                   /\ store = c.ms)
            /\ (c.result # Nil => store = c.gate.st)

\* a second out-of-order batch buffered and persisted
ForceBufferWitness ==
    \E c \in call :
        /\ c.path = "buffered"
        /\ c.result = Nil
        /\ Cardinality(DOMAIN store.buffer) = 2
        /\ c.req.firstEventID \notin DOMAIN c.gate.ms.buffer

\* where a flush starting at event n ends: the end of the contiguous chain of
\* buffered batches n -> nextEventID -> ...
RECURSIVE ChainEnd(_, _)
ChainEnd(buffer, n) ==
    IF n \in DOMAIN buffer /\ buffer[n].nextEventID > n
    THEN ChainEnd(buffer, buffer[n].nextEventID)
    ELSE n

\* C9. When a batch with firstEventID = nextEventID is applied and ApplyEvents
\* returns without error, the buffer has been flushed in the same call: the
\* buffered batches chained from the batch's nextEventID were applied one
\* after the other in ascending order, nextEventID is the end of the chain,
\* and no buffered batch keyed at nextEventID remains.
ApplyThenFlush ==
    \A c \in call :
        (c.path = "applied" /\ c.result = Nil) =>
            LET n == Len(c.applied)
                g == c.gate.applied
            IN  /\ n > g
                /\ ~c.applied[g + 1].fromBuffer
                /\ c.applied[g + 1].firstEventID = c.req.firstEventID
                /\ c.applied[g + 1].firstEventID = c.gate.ms.nextEventID
                /\ \A i \in (g + 2)..n :
                      /\ c.applied[i].fromBuffer
                      /\ c.applied[i].firstEventID = c.applied[i - 1].nextEventID
                      /\ c.applied[i].firstEventID \in DOMAIN c.gate.ms.buffer
                /\ c.ms.nextEventID = ChainEnd(c.gate.ms.buffer, c.req.nextEventID)
                /\ c.ms.nextEventID = c.applied[n].nextEventID
                /\ c.ms.nextEventID \notin DOMAIN c.ms.buffer
                /\ store = c.ms

\* the incoming batch and a chain of two buffered batches applied in one call
ApplyThenFlushWitness ==
    \E c \in call :
        /\ c.path = "applied"
        /\ c.result = Nil
        /\ Len(c.applied) = c.gate.applied + 3

\* C10. Duplicate delivery is idempotent: a non-start batch below the run's
\* nextEventID is dropped (nil, nothing applied, buffered or persisted), so
\* delivering again the batch that ApplyEvents has just applied leaves the
\* run as the first delivery left it. Stated on the second delivery of the
\* batch just applied, with no store failure in it.
DuplicateDeliveryIdempotent ==
    \A c \in call :
        (c.path = "applied" /\ c.result = Nil /\ uuidCtr < MaxResets) =>
            LET again == ApplyEventsOther(NewCtx(c.ms, store, 0, uuidCtr), c.req)
            IN  /\ c.req.firstEventID < store.nextEventID
                /\ again.err = Nil
                /\ again.c.applied = <<>>
                /\ again.c.st = store
                /\ again.c.ms = c.ms

\* calls that ran replicateWorkflowStarted
StartCalls == {c \in call : c.start.out.branch # ""}

\* C11: whenever replicateWorkflowStarted returns an error after its
\* AppendHistoryEvents succeeded, it has deleted the appended history batch,
\* so no history rows remain for a run whose workflow record was not created
AppendedHistoryDeletedOnError ==
    \A c \in StartCalls :
        (c.start.out.appended /\ c.result # Nil) => c.start.out.historyDeleted

\* calls whose brand-new create was answered WorkflowExecutionAlreadyStarted
AlreadyStartedCalls ==
    {c \in StartCalls : c.start.out.appended /\ c.start.env.create1 = "started"}

\* the start batch was dropped: success, nothing created, flushed or terminated
StartDropped(c) ==
    /\ c.result = Nil
    /\ c.start.out.creates = 1 /\ ~c.start.out.created
    /\ ~c.start.out.flushed /\ c.start.out.terminateRequests = 0

\* the second create, with PreviousRunID = the current run, was issued
CreatedWithPrevRunID(c) ==
    /\ c.start.out.creates = 2
    /\ c.start.out.created <=> c.start.env.create2 = "ok"
    /\ c.start.out.created => c.start.out.prevRunID = CurrentRunID
    /\ c.result = CreateError(c.start.env.create2)

LowerVersionRunningCalls ==
    {c \in AlreadyStartedCalls :
        /\ ~c.start.env.curSameRun /\ ~c.start.env.curCompleted
        /\ c.start.env.curStartVersion < c.req.version}

AckRule ==
    \A c \in tcall :
        IF c.filter = "reject" THEN c.acks = 1 /\ c.err = Nil /\ c.taskID \in acked
        ELSE IF c.filter = "error" THEN c.acks = 0 /\ c.err = ErrFilter
        ELSE IF c.handlerErr \in {Nil, ErrEntityNotExists}
             THEN c.acks = 1 /\ c.err = Nil /\ c.taskID \in acked
        ELSE c.acks = 0 /\ c.err = c.handlerErr

\* a handler returned EntityNotExists and the task was completed
AckRuleWitness ==
    \E c \in tcall : c.handlerErr = ErrEntityNotExists /\ c.acks = 1 /\ c.taskID \in acked

\* the handler of the call c found the execution deleted
SawEntityNotExists(c) ==
    \E i \in 1..Len(c.trace) : c.trace[i].err = ErrEntityNotExists

\* C15. For a task of any type, RetryTimer included: when the execution was
\* deleted between scheduling and firing, so that loading it yields
\* EntityNotExists, the task is completed and process() returns nil.
EntityNotExistsRecovered ==
    \A c \in tcall : SawEntityNotExists(c) => c.acks = 1 /\ c.err = Nil

\* the commits of the call c that failed with an error other than Conflict
FailedCommits(c) ==
    {i \in 1..Len(c.trace) : c.trace[i].op = "commit" /\ c.trace[i].err \notin {Nil, ErrConflict}}

\* C16. In every timer handler a commit that fails with an error other than
\* Conflict makes the handler fail, with that error unless the recovery from
\* BufferedEventsLimitExceeded replaced it, so the task is not completed; an
\* ActivityTimeout task whose commit fails is not completed either.
CommitFailureLeavesTaskUnacked ==
    \A c \in tcall :
        \A i \in FailedCommits(c) :
            /\ c.acks = 0
            /\ c.handlerErr # Nil
            /\ c.trace[i].err # ErrBufferedEventsLimitExceeded => c.handlerErr = c.trace[i].err

\* the calls of process in which a handler with a retry loop ran
LoopCalls == {c \in tcall : c.filter = "ok" /\ c.task.taskType # "DeleteHistoryEvent"}

\* the attempt of the call c that ended with the trace entry i is retried:
\* its commit returned Conflict, or, for a RetryTimer task, it failed
AttemptRetried(c, i) ==
    IF c.task.taskType = "RetryTimer" THEN c.trace[i].err # Nil
    ELSE c.trace[i].op \in {"commit", "recoveryCommit"} /\ c.trace[i].err = ErrConflict

\* the attempts of the call c: the loads of the mutable state and, for a
\* RetryTimer task, the runs of processFn that did not obtain the context
Attempts(c) ==
    c.loads + Cardinality({i \in 1..Len(c.lock) :
                              c.lock[i].op = "acquire" /\ c.lock[i].err # Nil
                              /\ c.task.taskType = "RetryTimer"})

\* the last attempt of the call c is retried
LastAttemptRetried(c) ==
    IF Len(c.trace) = 0
    THEN c.task.taskType = "RetryTimer" /\ Len(c.lock) > 0
    ELSE AttemptRetried(c, Len(c.trace))

\* C17. Every timer handler makes at most conditionalRetryCount attempts, each
\* starting with a load of the mutable state; an attempt after the first is
\* made only when the commit of the one before returned Conflict (for a
\* RetryTimer task, when the one before failed); the handler returns
\* ErrMaxAttemptsExceeded exactly when conditionalRetryCount attempts were made
\* and the last one ended that way too; such a task is not completed.
BoundedRetries ==
    \A c \in LoopCalls :
        /\ Attempts(c) <= ConditionalRetryCount
        /\ c.loads = Cardinality({i \in 1..Len(c.trace) : c.trace[i].op = "load"})
        /\ \A i \in 2..Len(c.trace) : c.trace[i].op = "load" => AttemptRetried(c, i - 1)
        /\ c.handlerErr = ErrMaxAttemptsExceeded
              <=> (Attempts(c) = ConditionalRetryCount /\ LastAttemptRetried(c))
        /\ c.handlerErr = ErrMaxAttemptsExceeded => c.acks = 0 /\ c.err = ErrMaxAttemptsExceeded

\* a handler other than processRetryTimer used up its attempts on conflicts
BoundedRetriesWitness ==
    \E c \in LoopCalls :
        /\ c.task.taskType # "RetryTimer"
        /\ c.handlerErr = ErrMaxAttemptsExceeded
        /\ c.loads = ConditionalRetryCount
        /\ c.acks = 0

\* the timers that the committed pass of the call c retried / timed out
RetriedTimers(c) ==
    {c.acts[i].timeoutType : i \in {j \in 1..Len(c.acts) : c.acts[j].act = "retry"}}

TimedOutTimers(c) ==
    {c.acts[i].timeoutType : i \in {j \in 1..Len(c.acts) : c.acts[j].act = "timedOut"}}

RetryTasks(c) ==
    {i \in 1..Len(c.pass.timerTasks) : c.pass.timerTasks[i].taskType = "RetryTimer"}

ShardLostCommits(c) ==
    {i \in 1..Len(c.trace) :
        /\ c.trace[i].op \in {"commit", "recoveryCommit"}
        /\ c.trace[i].err = ErrShardOwnershipLost}

\* C19. ShardOwnershipLost returned by a commit of a timer handler, the main
\* commit of updateWorkflowExecution or the recovery commit after
\* BufferedEventsLimitExceeded, stops the processor; the handler returns
\* the error as is, never ErrMaxAttemptsExceeded, and reads nothing
\* afterwards.
ShardLossStopsProcessor ==
    \A c \in tcall :
        \A i \in ShardLostCommits(c) :
            /\ c.stop
            /\ status = "Stopped"
            /\ c.handlerErr = ErrShardOwnershipLost
            /\ \A j \in (i + 1)..Len(c.trace) : c.trace[j].op \notin {"load", "reload"}

\* the commits of the call c that returned BufferedEventsLimitExceeded
BufferedLimitCommits(c) ==
    {i \in 1..Len(c.trace) :
        c.trace[i] = Ev("commit", ErrBufferedEventsLimitExceeded)}

\* the recovery that followed the commit i of the call c ended well: the
\* reloaded run had no decision in flight, or the recovery commit succeeded
RecoveryDone(c, i) ==
    \/ Len(c.trace) = i + 2 /\ c.trace[i + 2] = Ev("reload", Nil)
    \/ Len(c.trace) = i + 4 /\ c.trace[i + 4] = Ev("recoveryCommit", Nil)

\* C20. When the commit of a timer handler returns
\* BufferedEventsLimitExceeded, the cached mutable state is cleared and
\* reloaded; if a decision is in flight it is failed, a new decision is
\* scheduled and that is committed; when this recovery succeeds, or no
\* decision is in flight, the handler returns BufferedEventsLimitExceeded and
\* the task is not completed.
BufferedEventsRecovery ==
    \A c \in tcall :
        \A i \in BufferedLimitCommits(c) :
            /\ Len(c.trace) >= i + 2
            /\ c.trace[i + 1] = Ev("clear", Nil)
            /\ c.trace[i + 2].op = "reload"
            /\ Len(c.trace) >= i + 3 => c.trace[i + 3] = Ev("failDecision", Nil)
            /\ Len(c.trace) >= i + 4 => c.trace[i + 4].op = "recoveryCommit"
            /\ (Len(c.trace) = i + 2 /\ c.trace[i + 2].err = Nil) => ~GetInFlightDecisionTask(twf)
            /\ (Len(c.trace) = i + 4 /\ c.trace[i + 4].err = Nil) =>
                   /\ twf.decisionFailed = 1
                   /\ twf.hasPendingDecision
                   /\ ~twf.decision.started
            /\ RecoveryDone(c, i) =>
                   /\ c.handlerErr = ErrBufferedEventsLimitExceeded
                   /\ c.err = ErrBufferedEventsLimitExceeded
                   /\ c.acks = 0

\* the calls of ApplyEvents that reached the version gate
GateCalls == {c \in call : c.path \in ApplyOtherEventsPaths \cup {"gateError", "stale"}}

\* the cluster that wrote last to the mutable state the gate of call c was given
PreviousActiveCluster(c) == ClusterNameForFailoverVersion(c.pre.ms.lastWriteVersion)

\* the gate of the call c handed on what it was given: no reset, no
\* termination, nothing applied, nothing buffered, nothing persisted
GateTouchedNothing(c) ==
    /\ c.resetTo = 0
    /\ c.gate.ms = c.pre.ms
    /\ c.gate.st = c.pre.st
    /\ c.gate.cr = NoConflictResolution
    /\ c.gate.applied = c.pre.applied

\* C21. When the local lastWriteVersion is below the incoming version: if
\* the request has no replicationInfo for the previous active cluster, the
\* batch proceeds when the incoming version is from the same cluster as
\* lastWriteVersion and otherwise ApplyEvents returns
\* ErrMissingReplicationInfo; if that replicationInfo has lastEventID above
\* the local lastWriteEventID, ApplyEvents returns
\* ErrCorruptedReplicationInfo. Both are BadRequest errors, not retry
\* sentinels, and with both there is no reset, no termination, no buffering
\* and no apply: the call leaves the mutable state and the store as the
\* pre-flush left them.
DeadLetterOnBadReplicationInfo ==
    \A c \in GateCalls :
        c.pre.ms.lastWriteVersion < c.req.version =>
            /\ PreviousActiveCluster(c) \notin DOMAIN c.req.replicationInfo =>
                  IF IsVersionFromSameCluster(c.req.version, c.pre.ms.lastWriteVersion)
                  THEN c.path \in ApplyOtherEventsPaths /\ GateTouchedNothing(c)
                  ELSE c.result = ErrMissingReplicationInfo
            /\ (/\ PreviousActiveCluster(c) \in DOMAIN c.req.replicationInfo
                /\ c.req.replicationInfo[PreviousActiveCluster(c)] > c.pre.ms.lastWriteEventID) =>
                  c.result = ErrCorruptedReplicationInfo
            /\ c.result \in {ErrMissingReplicationInfo, ErrCorruptedReplicationInfo} =>
                  /\ c.result \in BadRequestErrors
                  /\ c.result \notin RetryTaskErrors
                  /\ c.path = "gateError"
                  /\ GateTouchedNothing(c)
                  /\ c.ms = c.pre.ms
                  /\ store = c.pre.st
                  /\ Len(c.applied) = c.pre.applied
                  /\ c.notified = c.pre.notified

\* a call returned one of the dead-letter errors for a run whose buffer
\* holds a batch
DeadLetterWitness ==
    \E c \in GateCalls :
        /\ c.pre.ms.lastWriteVersion < c.req.version
        /\ DOMAIN c.pre.ms.buffer # {}
        /\ \/ /\ c.result = ErrMissingReplicationInfo
              /\ c.req.replicationInfo = EmptyMap
           \/ /\ c.result = ErrCorruptedReplicationInfo
              /\ c.req.replicationInfo # EmptyMap

\* the calls of ApplyEvents for a non-start batch of a run without mutable
\* state, the workflow having a current run
MissingCalls ==
    {c \in call : /\ c.path \in {"staleMissing", "flushCurrentFailed", "retryMissing"}
                  /\ c.current # NoCurrentRun}

\* C22. A non-start batch for a run that has no mutable state: if the
\* current run's lastWriteVersion is above the incoming version the batch is
\* dropped (nil, the current run's buffer not flushed, nothing mutated);
\* otherwise the current run's buffer is flushed once and the call returns
\* ErrRetryEntityNotExists, or the flush's error when the flush failed. The
\* incoming batch is never applied and never buffered.
MissingMutableStateRetries ==
    \A c \in MissingCalls :
        /\ c.current.lastWriteVersion > c.req.version =>
              /\ c.result = Nil
              /\ c.current.flushes = 0
        /\ c.current.lastWriteVersion <= c.req.version =>
              /\ c.current.flushes = 1
              /\ c.current.flushOK => c.result = ErrRetryEntityNotExists
              /\ ~c.current.flushOK => c.result = ErrPersistence
        /\ c.applied = <<>>
        /\ c.ms = NoMS
        /\ c.notified = 0
        /\ c.resetTo = 0
        /\ ~store.exists

\* a batch of the current run's own version was answered
\* ErrRetryEntityNotExists after the flush
MissingMutableStateWitness ==
    \E c \in MissingCalls :
        /\ c.current.lastWriteVersion = c.req.version
        /\ c.current.flushes = 1
        /\ c.result = ErrRetryEntityNotExists

\* C22 as stated: whenever the current run is not ahead of the batch the
\* call returns ErrRetryEntityNotExists
MissingMutableStateAlwaysRetries ==
    \A c \in MissingCalls :
        c.current.lastWriteVersion <= c.req.version => c.result = ErrRetryEntityNotExists

\* the gate of call c was given a state behind the incoming version, with
\* replication info for the previous active cluster that ends before the
\* local lastWriteEventID
ConflictDetected(c) ==
    /\ c.pre.ms.lastWriteVersion < c.req.version
    /\ PreviousActiveCluster(c) \in DOMAIN c.req.replicationInfo
    /\ c.req.replicationInfo[PreviousActiveCluster(c)] < c.pre.ms.lastWriteEventID

\* what conflictResolutionTerminateContinueAsNew answers the gate of call c
TerminationError(c) ==
    ConflictResolutionTerminateContinueAsNew(
        [NewCtx(c.pre.ms, c.pre.st, 0, 0) EXCEPT !.env = c.pre.env]).err

\* C27. The gate resets only if the local lastWriteVersion is below the
\* incoming version, the request carries replicationInfo for the previous
\* active cluster and that entry's lastEventID is below the local
\* lastWriteEventID; under these conditions it resets to that lastEventID
\* unless conflictResolutionTerminateContinueAsNew returned an error (that
\* error is returned, no reset) or the reset itself failed. On equal
\* versions the batch proceeds as is, without reset, whatever the
\* replicationInfo; with the local version above the incoming one the batch
\* is dropped with nil, neither applied nor buffered; with the entry's
\* lastEventID equal to the local lastWriteEventID it proceeds without reset.
GateResetRule ==
    \A c \in GateCalls :
        /\ c.resetTo # 0 => ConflictDetected(c)
        /\ ConflictDetected(c) =>
              IF TerminationError(c) # Nil
              THEN /\ c.resetTo = 0
                   /\ c.path = "gateError"
                   /\ c.result = TranslateError(TerminationError(c))
                   /\ c.gate.ms = c.pre.ms
              ELSE \/ c.resetTo = c.req.replicationInfo[PreviousActiveCluster(c)]
                   \/ /\ c.resetTo = 0
                      /\ c.path = "gateError"
                      /\ c.result = ErrPersistence
        /\ c.pre.ms.lastWriteVersion = c.req.version =>
              /\ c.path \in ApplyOtherEventsPaths
              /\ GateTouchedNothing(c)
        /\ c.pre.ms.lastWriteVersion > c.req.version =>
              /\ c.path = "stale"
              /\ c.result = Nil
              /\ GateTouchedNothing(c)
              /\ c.ms = c.pre.ms
              /\ store = c.pre.st
              /\ Len(c.applied) = c.pre.applied
        /\ (/\ c.pre.ms.lastWriteVersion < c.req.version
            /\ PreviousActiveCluster(c) \in DOMAIN c.req.replicationInfo
            /\ c.req.replicationInfo[PreviousActiveCluster(c)] = c.pre.ms.lastWriteEventID) =>
              /\ c.path \in ApplyOtherEventsPaths
              /\ GateTouchedNothing(c)

\* C27 as stated: the gate resets exactly when the three conditions hold
GateResetsIffConflict ==
    \A c \in GateCalls : c.resetTo # 0 <=> ConflictDetected(c)

\* a conflict was detected and the gate reset the state to the entry's
\* lastEventID
GateResetWitness ==
    \E c \in GateCalls :
        /\ ConflictDetected(c)
        /\ c.resetTo = c.req.replicationInfo[PreviousActiveCluster(c)]
        /\ c.gate.ms.nextEventID = c.resetTo + 1

\* the calls of ApplyEvents whose gate detected a conflict, and so ran
\* conflictResolutionTerminateContinueAsNew
ConflictCalls == {c \in GateCalls : ConflictDetected(c)}

RECURSIVE ContinuedFrom(_, _, _)
\* the run reached from runID by n steps of ContinuedExecutionRunId
ContinuedFrom(env, runID, n) ==
    IF n = 0 \/ runID = EmptyRunID THEN runID
    ELSE ContinuedFrom(env, env.continuedExecutionRunID[runID], n - 1)

\* the current run continues, directly or not, the run being reset
ContinuesTarget(env) ==
    \E n \in 1..NumRuns : ContinuedFrom(env, env.currentRunID, n) = env.targetRunID

\* the run being reset closed with ContinuedAsNew, the current run is open
\* and continues it
TerminationDue(env) ==
    /\ env.closeStatus = "ContinuedAsNew"
    /\ env.current = "ok"
    /\ env.currentCloseStatus = "None"
    /\ ContinuesTarget(env)

\* one of the history lookups of the chain walk of call c failed
LookupFailed(c) == c.pre.env.failAt \in 1..Len(c.gate.cr.walk)

\* C28. During conflict resolution the current run is terminated iff the
\* run being reset is closed with ContinuedAsNew, the current run is still
\* open, and following ContinuedExecutionRunId from the current run reaches
\* the run being reset; otherwise nothing is terminated. If the termination
\* or a chain lookup fails, the error is returned and the reset is not
\* performed.
TerminateContinuedRun ==
    \A c \in ConflictCalls :
        LET env == c.pre.env
            cr == c.gate.cr
        IN  /\ cr.terminateRequests > 0 => TerminationDue(env) /\ ~LookupFailed(c)
            /\ cr.terminateRequests <= 1
            /\ ~TerminationDue(env) => ~cr.terminated /\ cr.terminatedRunID = EmptyRunID
            /\ (TerminationDue(env) /\ ~LookupFailed(c) /\ env.terminate = "ok") =>
                  /\ cr.terminated
                  /\ cr.terminateRequests = 1
                  /\ cr.terminatedRunID = env.currentRunID
            /\ (\/ LookupFailed(c)
                \/ TerminationDue(env) /\ env.terminate # "ok") =>
                  /\ ~cr.terminated
                  /\ c.result \notin {Nil, ErrRetryBufferEvents}
                  /\ c.path = "gateError"
                  /\ c.resetTo = 0
                  /\ c.gate.ms = c.pre.ms
                  /\ c.ms = c.pre.ms
                  /\ store = c.pre.st

\* the current run, two continuations after the run being reset, was
\* terminated and the reset followed
TerminateContinuedRunWitness ==
    \E c \in ConflictCalls :
        /\ c.gate.cr.terminated
        /\ c.gate.cr.terminatedRunID = c.pre.env.currentRunID
        /\ Len(c.gate.cr.walk) = 2
        /\ c.resetTo # 0

\* the calls of ApplyEvents whose conflict resolution walked the
\* continue-as-new chain
WalkCalls ==
    {c \in ConflictCalls : /\ c.pre.env.closeStatus = "ContinuedAsNew"
                           /\ c.pre.env.current = "ok"
                           /\ c.pre.env.currentCloseStatus = "None"}

TokenCalls == {c \in hcall : c.op = "token"}

\* C23. deserializeToken(serializeToken(token)) is the token itself, equal
\* LastEventBatchVersion and equal cursor bytes, for every token whose cursor
\* is not empty. A token with an empty cursor serializes to no bytes at all,
\* and these deserialize to the empty cursor with EmptyVersion, whatever
\* LastEventBatchVersion the token held.
TokenRoundTripNonEmptyCursor ==
    \A c \in TokenCalls :
        LET token == c.err.token
            back == c.err.back
        IN  /\ Len(token.Data) > 0 => back = token /\ c.err.bytes # token.Data
            /\ Len(token.Data) = 0 =>
                  /\ c.err.bytes = <<>>
                  /\ back = HistoryToken(EmptyVersion, <<>>)

\* C23 as stated: every token comes back with its LastEventBatchVersion and
\* its cursor bytes
TokenRoundTripEveryToken ==
    \A c \in TokenCalls :
        /\ c.err.back.LastEventBatchVersion = c.err.token.LastEventBatchVersion
        /\ c.err.back.Data = c.err.token.Data

\* a token with a version and a cursor went through JSON and came back
TokenRoundTripWitness ==
    \E c \in TokenCalls :
        /\ c.err.token.LastEventBatchVersion = MaxBatchVersion
        /\ c.err.token.Data = <<NumBatches>>
        /\ Len(c.err.bytes) > 1
        /\ c.err.back = c.err.token

\* the writes AppendHistoryEvents was asked for
AppendCalls == {c \in hcall : c.op = "append"}

\* the row of the call's key before and after the call
RowBefore(c) == c.previous[c.request.firstEventID]
RowAfter(c) == events[c.request.firstEventID]

\* C24. AppendHistoryEvents is a compare-and-set on the row of
\* (domain, workflow, run, firstEventID). A non-overwrite append succeeds
\* only if the key had no row; an overwrite succeeds only if the key had a
\* row with range_id <= the request's rangeID and tx_id < the request's
\* transaction ID; a success stores the request's version, rangeID and
\* transaction ID. A request whose condition fails returns
\* ConditionFailedError and leaves the row as it was, and no other row is
\* ever touched. Hence whenever a call changes a row that existed, tx_id grew
\* strictly and range_id did not decrease.
AppendIsCompareAndSet ==
    \A c \in AppendCalls :
        LET req == c.request
            before == RowBefore(c)
            after == RowAfter(c)
            met == IF req.overwrite
                   THEN /\ before.exists
                        /\ before.range_id <= req.rangeID
                        /\ before.tx_id < req.transactionID
                   ELSE ~before.exists
        IN  /\ c.err = Nil =>
                  /\ met
                  /\ after = Row(req.eventBatchVersion, req.rangeID, req.transactionID)
            /\ c.err = ErrConditionFailed => ~met /\ after = before
            /\ ~met => c.err # Nil /\ after = before
            /\ \A k \in FirstEventIDs \ {req.firstEventID} : events[k] = c.previous[k]
            /\ (before.exists /\ after # before) =>
                  /\ after.exists
                  /\ after.tx_id > before.tx_id
                  /\ after.range_id >= before.range_id

\* an overwrite replaced a row by one of a higher transaction ID and a
\* higher range ID
AppendWitness ==
    \E c \in AppendCalls :
        /\ c.request.overwrite
        /\ RowBefore(c).exists
        /\ c.err = Nil
        /\ RowAfter(c).tx_id > RowBefore(c).tx_id
        /\ RowAfter(c).range_id > RowBefore(c).range_id

\* C25. In a paginated read in which every call passes the token the
\* previous call returned, the batches come in the order of their first
\* event IDs, none twice, and their versions never decrease across all the
\* pages: a stored batch of a version lower than that of a batch returned
\* before it is left out, also when the two are on different pages.
PagesVersionsNonDecreasing ==
    reader.active =>
        \A i, j \in 1..Len(reader.batches) :
            i < j =>
                /\ reader.batches[i].eventBatchVersion <= reader.batches[j].eventBatchVersion
                /\ reader.batches[i].firstEventID < reader.batches[j].firstEventID

\* the second page of a read held one batch of a version lower than the
\* one returned on the first page, and came back empty
PagesWitness ==
    /\ reader.active
    /\ reader.pages = 2
    /\ reader.request.pageSize = 1
    /\ reader.last.err = Nil
    /\ reader.last.response.events = <<>>
    /\ Len(reader.batches) = 1
    /\ reader.last.received.LastEventBatchVersion = reader.batches[1].eventBatchVersion
    /\ reader.last.sent.Data # <<>>
    /\ \E k \in FirstEventIDs :
          /\ k = reader.last.sent.Data[1]
          /\ k > reader.batches[1].firstEventID
          /\ events[k].exists
          /\ events[k].event_batch_version < reader.batches[1].eventBatchVersion

\* the decisions of the persisted run that were scheduled and neither timed
\* out nor failed
InFlightDecisions == twf.decisionScheduled - twf.decisionTimedOut - twf.decisionFailed

\* C26. After any sequence of timer-handler commits on one run (user timer
\* fired, activity timed out, decision timed out, forced decision failure
\* after BufferedEventsLimitExceeded) the run has at most one decision in
\* flight, the one its mutable state calls pending, and no handler asked for
\* a new decision while one was pending at commit time.
AtMostOneDecisionInFlight ==
    /\ InFlightDecisions \in {0, 1}
    /\ InFlightDecisions = 1 <=> twf.hasPendingDecision
    /\ twf.scheduledWhilePending = 0

\* a user timer fired and was committed while a decision was pending, and no
\* second decision was scheduled
UserTimerFiredUnderDecision ==
    /\ \E id \in TimerIDs : twf.fired[id] > 0
    /\ twf.hasPendingDecision
    /\ twf.decisionScheduled = 1
    /\ twf.decisionTimedOut = 0
    /\ twf.decisionFailed = 0

\* ----------------------------------------------------------------- C31
\* the ApplyReplicationTask calls of an ApplyEvents call that committed
\* their batch: every one but a last one that failed
CommittedApplies(c) ==
    IF c.path \in {"preFlushFailed", "applyFailed"} \/ (c.path = "applied" /\ c.result # Nil)
    THEN Len(c.applied) - 1
    ELSE Len(c.applied)

\* C31: the source cluster's time is advanced and the processors are notified
\* after and only after the batch's events were committed: once for every
\* batch committed, never by an ApplyReplicationTask call that failed and
\* never by one that dropped a start batch as duplicate or stale without
\* creating the run.
NotifyOnlyAfterCommit ==
    \A c \in call :
        /\ c \notin StartCalls => c.notified = CommittedApplies(c)
        /\ c \in StartCalls => (c.notified > 0 <=> c.start.out.created)

\* ----------------------------------------------------------------- C32
\* the ApplyEvents call ran FlushBuffer on the run
RanFlushBuffer(c) ==
    c.path \in ApplyOtherEventsPaths \cup {"preFlushFailed", "gateError", "stale"}

\* the applies made by FlushBuffer in the call
Flushed(c) == {i \in 1..Len(c.applied) : c.applied[i].fromBuffer}

\* C32: FlushBuffer terminates, with at most as many iterations as batches
\* in the buffer it was given: every iteration takes the batch keyed by the
\* current nextEventID out of the buffer and applies it, no batch is applied
\* twice, the loop ends when no batch is keyed by nextEventID (the buffer
\* being empty or not) or at the first apply that fails, and the persisted
\* mutable state loses a batch from its buffer in the commit that applies it
\* and in no other (stated on the calls that do not reset the run).
FlushBufferStep ==
    \A c \in call' :
        (call = {} /\ RanFlushBuffer(c)) =>
            LET loaded == LoadWorkflowExecution
                n == Len(c.applied)
                failed == n > c.notified
            IN  /\ Cardinality(Flushed(c)) <= Cardinality(DOMAIN loaded.buffer)
                /\ \A i \in Flushed(c) :
                      /\ c.applied[i].firstEventID = c.applied[i].preNextEventID
                      /\ c.applied[i].firstEventID \in DOMAIN loaded.buffer
                      /\ loaded.buffer[c.applied[i].firstEventID].nextEventID
                            = c.applied[i].nextEventID
                      /\ \A j \in Flushed(c) :
                            i # j => c.applied[i].firstEventID # c.applied[j].firstEventID
                /\ c.path # "preFlushFailed" =>
                      ~HasBufferedReplicationTask(c.pre.ms, GetNextEventID(c.pre.ms))
                /\ (c.path = "applied" /\ c.result = Nil) =>
                      ~HasBufferedReplicationTask(c.ms, GetNextEventID(c.ms))
                /\ c.notified >= n - 1
                /\ failed => /\ c.result # Nil
                             /\ store'.nextEventID = c.applied[n].firstEventID
                /\ c.resetTo = 0 =>
                      \A i \in Flushed(c) :
                          /\ c.applied[i].firstEventID \notin DOMAIN c.ms.buffer
                          /\ (i <= c.notified) <=>
                                 c.applied[i].firstEventID \notin DOMAIN store'.buffer

FlushBufferTerminates == [][FlushBufferStep]_vars

\* a flush that applied two buffered batches, and one whose second apply
\* failed: the batch is gone from the buffer in memory and still in the
\* persisted one
FlushBufferWitness ==
    \E c \in call :
        /\ RanFlushBuffer(c)
        /\ Cardinality(Flushed(c)) = 2
        /\ c.notified = Len(c.applied) - 1
        /\ c.applied[Len(c.applied)].fromBuffer
        /\ c.applied[Len(c.applied)].firstEventID \in DOMAIN store.buffer
        /\ c.applied[Len(c.applied)].firstEventID \notin DOMAIN c.ms.buffer

\* ----------------------------------------------------------------- C33
\* the pending user timers of ms that are expired at the reference time
ExpiredUserTimers(ms, referenceTime) ==
    {id \in TimerIDs : ms.timers[id].pending /\ IsTimerExpired(ms.timers[id].expiry, referenceTime)}

\* the pending user timers of ms that are not
LiveUserTimers(ms, referenceTime) ==
    {id \in TimerIDs : ms.timers[id].pending /\ ~IsTimerExpired(ms.timers[id].expiry, referenceTime)}

\* the first of them in deadline order
FirstLiveUserTimer(ms, referenceTime) ==
    CHOOSE i \in LiveUserTimers(ms, referenceTime) :
        \A j \in LiveUserTimers(ms, referenceTime) :
            \/ ms.timers[i].expiry < ms.timers[j].expiry
            \/ (ms.timers[i].expiry = ms.timers[j].expiry /\ i <= j)

\* the tasks the step added to the timer queue
NewTimerTasks == SubSeq(timerTasks', Len(timerTasks) + 1, Len(timerTasks'))

\* one pass of the UserTimer handler committed at the first attempt, on the
\* mutable state twf it loaded
UserTimerPassStep ==
    \A c \in tcall' :
        (/\ ProcessStep
         /\ c.task.taskType = "UserTimer"
         /\ c.loads = 1
         /\ c.commits = 1
         /\ c.committed = 1) =>
            LET expired == ExpiredUserTimers(twf, c.task.vis)
                live == LiveUserTimers(twf, c.task.vis)
                first == FirstLiveUserTimer(twf, c.task.vis)
            IN  /\ c.fired = expired
                /\ \A id \in expired :
                      /\ twf'.fired[id] = twf.fired[id] + 1
                      /\ ~twf'.timers[id].pending
                /\ \A id \in TimerIDs \ expired : twf'.fired[id] = twf.fired[id]
                /\ Len(NewTimerTasks) <= 1
                /\ Len(NewTimerTasks) = 1 <=> (live # {} /\ ~twf.timers[first].taskCreated)
                /\ Len(NewTimerTasks) = 1 =>
                      /\ NewTimerTasks[1] = UserTimerTask(first, twf.timers[first].expiry)
                      /\ twf'.timers[first].taskCreated
                /\ \A id \in live : id # first => twf'.timers[id] = twf.timers[id]

\* C33: in one pass of the UserTimer handler over the pending user timers in
\* deadline order, every timer with fireTime <= task.visibilityTimestamp gets
\* a TimerFired event and no other timer does, the scan stops at the first
\* timer that is not expired, and at most one new UserTimer task is created:
\* for that first timer, and only when its TaskCreated flag is unset.
UserTimerPass == [][UserTimerPassStep]_vars

\* a committed pass that fired nothing, created the task of the first of two
\* timers that are not expired and left the second without a task
UserTimerPassWitness ==
    \E c \in tcall :
        /\ c.task.taskType = "UserTimer"
        /\ c.committed = 1
        /\ c.fired = {}
        /\ LiveUserTimers(twf, c.task.vis) = TimerIDs
        /\ Len(timerTasks) = 2
        /\ timerTasks[2] = UserTimerTask(FirstLiveUserTimer(twf, c.task.vis),
                                         twf.timers[FirstLiveUserTimer(twf, c.task.vis)].expiry)
        /\ \E id \in TimerIDs : ~twf.timers[id].taskCreated

\* ----------------------------------------------------------------- C34
\* the expired activity timers the call's pass looked at
ExpiredActs(c) == {i \in 1..Len(c.acts) : c.acts[i].act # "created"}

ActsOf(c, what) == {i \in 1..Len(c.acts) : c.acts[i].act = what}

\* C34: attempt-scoped activity timer filtering. An expired activity timer
\* built for an attempt lower than the activity's current attempt produces
\* neither a retry timer nor an ActivityTaskTimedOut event unless its type is
\* ScheduleToClose; an expired ScheduleToStart timer is never retried and
\* times the activity out only if the activity has not started; an expired
\* StartToClose timer times the activity out only if the activity has
\* started. The retry tasks and the timeout events handed to the commit are
\* those of the timers that were retried and timed out.
AttemptScopedFiltering ==
    \A c \in tcall :
        c.task.taskType = "ActivityTimeout" =>
            /\ \A i \in ExpiredActs(c) :
                  LET a == c.acts[i]
                  IN  /\ (a.attempt < a.activityAttempt /\ a.timeoutType # "ScheduleToClose")
                            => a.act = "ignored"
                      /\ a.timeoutType = "ScheduleToStart" =>
                            /\ a.act # "retry"
                            /\ a.act = "timedOut" => ~a.started
                      /\ a.timeoutType = "StartToClose" =>
                            (a.act = "timedOut" => a.started)
            /\ c.pass.timedOut = Cardinality(ActsOf(c, "timedOut"))
            /\ Cardinality(RetryTasks(c)) = Cardinality(ActsOf(c, "retry"))
            /\ c.pass.attempt = c.pass.attemptLoaded + Cardinality(ActsOf(c, "retry"))

\* one pass retried the StartToClose timer, passed over the ScheduleToStart
\* timer of the earlier attempt and timed the activity out on the
\* ScheduleToClose timer of the earlier attempt, and was committed
AttemptScopedFilteringWitness ==
    \E c \in tcall :
        /\ c.committed = 1
        /\ \E i, j, k \in 1..Len(c.acts) :
              /\ i < j /\ j < k
              /\ c.acts[i].timeoutType = "StartToClose" /\ c.acts[i].act = "retry"
              /\ c.acts[j].timeoutType = "ScheduleToStart" /\ c.acts[j].act = "ignored"
              /\ c.acts[j].attempt < c.acts[j].activityAttempt
              /\ c.acts[k].timeoutType = "ScheduleToClose" /\ c.acts[k].act = "timedOut"
              /\ c.acts[k].attempt < c.acts[k].activityAttempt
        /\ twf.activity.timedOut = 1
        /\ ~twf.activity.pending

\* ----------------------------------------------------------------- C35
\* one call of the ActivityTimeout handler on the running workflow twf that
\* did not run out of attempts: what its last pass handed to the commit
ActivityCommitStep ==
    \A c \in tcall' :
        (/\ ProcessStep
         /\ c.task.taskType = "ActivityTimeout"
         /\ twf.running
         /\ c.handlerErr # ErrMaxAttemptsExceeded) =>
            LET updateHistory == c.pass.timedOut >= 1
                createNewTimer == c.pass.timerTasks # <<>>
            IN  /\ c.pass.scheduleNewDecision <=> (updateHistory /\ ~twf.hasPendingDecision)
                /\ (~updateHistory /\ ~createNewTimer) =>
                      /\ c.commits = 0
                      /\ twf' = twf
                      /\ timerTasks' = timerTasks
                /\ (updateHistory \/ createNewTimer) => c.commits >= 1
                /\ c.committed = 1 =>
                      /\ twf'.decisionScheduled = twf.decisionScheduled
                            + (IF updateHistory /\ ~twf.hasPendingDecision THEN 1 ELSE 0)
                      /\ twf'.hasPendingDecision =
                            (twf.hasPendingDecision \/ updateHistory)
                      /\ twf'.scheduledWhilePending = twf.scheduledWhilePending
                      /\ twf'.activity.timedOut = twf.activity.timedOut + c.pass.timedOut

Loaded(c) == c.filter = "ok" /\ Len(c.trace) >= 1 /\ c.trace[1] = Ev("load", Nil)

\* the decision the task names is pending in the running workflow ms
DecisionStillPending(ms, task) == ms.running /\ GetPendingDecision(ms, task.eventID)

\* the main commit of the call succeeded
MainCommitSucceeded(c) == \E i \in 1..Len(c.trace) : c.trace[i] = Ev("commit", Nil)

\* the DecisionTimeout task of the call c times the decision of twf out
DecisionTimeoutDue(c) ==
    /\ DecisionStillPending(twf, c.task)
    /\ c.verified = "ok"
    /\ twf.decision.attempt = c.task.scheduleAttempt
    /\ c.task.timeoutType = "ScheduleToStart" => (~twf.decision.started /\ twf.sticky)

DecisionTimeoutStep ==
    \A c \in tcall' :
        (ProcessStep /\ c.task.taskType = "DecisionTimeout" /\ Loaded(c)) =>
            /\ c.pass.scheduleNewDecision <=> DecisionTimeoutDue(c)
            /\ ~DecisionTimeoutDue(c) => (c.commits = 0 /\ twf' = twf)
            /\ MainCommitSucceeded(c) =>
                  /\ twf'.decisionTimedOut = twf.decisionTimedOut + 1
                  /\ twf'.decisionScheduled = twf.decisionScheduled + 1
                  /\ twf'.hasPendingDecision
                  /\ twf'.decision.scheduleID # twf.decision.scheduleID
                  /\ ~twf'.decision.started
            /\ (~DecisionStillPending(twf, c.task) \/ c.verified = "stale") =>
                  /\ c.commits = 0
                  /\ c.err = Nil
                  /\ c.acks = 1

\* C36: DecisionTimeout handling. A task emits the timeout event and
\* schedules a new decision exactly when the decision with the task's
\* scheduleID is pending in the running workflow, the task's version is the
\* decision's, the decision's attempt equals task.scheduleAttempt and, for a
\* ScheduleToStart task, the sticky task list is enabled and the decision is
\* not started. A task whose decision is no longer pending or whose version
\* differs commits nothing and is acked.
DecisionTimeoutRule == [][DecisionTimeoutStep]_vars

\* a ScheduleToStart task with the sticky task list enabled and the decision
\* not started emits the timeout and schedules a new decision, whatever the
\* attempt of the decision
StickyTimeoutStep ==
    \A c \in tcall' :
        (/\ ProcessStep
         /\ c.task.taskType = "DecisionTimeout"
         /\ Loaded(c)
         /\ c.task.timeoutType = "ScheduleToStart"
         /\ DecisionStillPending(twf, c.task)
         /\ c.verified = "ok"
         /\ twf.sticky
         /\ ~twf.decision.started) => c.pass.scheduleNewDecision

StickyTimeoutAnyAttempt == [][StickyTimeoutStep]_vars

\* a ScheduleToStart task of an earlier attempt of the pending sticky decision
\* was acked without a commit
DecisionTimeoutWitness ==
    \E c \in tcall :
        /\ c.task.taskType = "DecisionTimeout"
        /\ c.task.timeoutType = "ScheduleToStart"
        /\ c.verified = "ok"
        /\ DecisionStillPending(twf, c.task)
        /\ twf.sticky
        /\ ~twf.decision.started
        /\ twf.decision.attempt # c.task.scheduleAttempt
        /\ c.commits = 0
        /\ c.acks = 1
        /\ c.taskID \in acked

\* ----------------------------------------------------------------- C37
\* the tasks the step appended to the timer queue
AppendedTimerTasks ==
    {timerTasks'[i] : i \in (Len(timerTasks) + 1)..Len(timerTasks')}

WorkflowTimeoutStep ==
    \A c \in tcall' :
        (/\ ProcessStep
         /\ c.task.taskType = "WorkflowTimeout"
         /\ Loaded(c)
         /\ twf.running
         /\ c.verified = "ok"
         /\ c.handlerErr = Nil) =>
            /\ MainCommitSucceeded(c)
            /\ twf'.workflowTimedOut
            /\ \E t \in AppendedTimerTasks : t.taskType = "DeleteHistoryEvent"

\* C37: whenever the WorkflowTimeout handler returns success after
\* AddTimeoutWorkflowEvent appended WorkflowExecutionTimedOut to a running
\* workflow, the event has been committed together with a history-deletion
\* timer task
WorkflowTimeoutCommitted == [][WorkflowTimeoutStep]_vars

\* ----------------------------------------------------------------- C38
\* the handler holds the execution lock after the first i lock events: it
\* acquired the lock and has not released it since
LockHeld(lock, i) ==
    \E j \in 1..i : /\ lock[j] = Ev("acquire", Nil)
                    /\ \A k \in (j + 1)..i : lock[k].op # "release"

\* the positions of the lock events of the call c where matching is called
Dispatches(c) == {i \in 1..Len(c.lock) : c.lock[i].op = "addActivityTask"}

\* C38: the RetryTimer handler calls AddActivityTask only when the workflow
\* is running, the activity of the task is pending, task.scheduleAttempt >=
\* ai.attempt and the task's version is the activity's; and when the call is
\* made the handler does not hold the execution lock of the run.
RetryTimerDispatch ==
    \A c \in tcall :
        (c.task.taskType = "RetryTimer" /\ Dispatches(c) # {}) =>
            /\ twf.running
            /\ twf.activity.pending
            /\ twf.activity.scheduleID = c.task.eventID
            /\ c.task.scheduleAttempt >= twf.activity.attempt
            /\ c.verified = "ok"
            /\ \A i \in Dispatches(c) : ~LockHeld(c.lock, i)

\* a RetryTimer task of a later attempt than the activity's was handed to
\* matching, after a first call to matching failed, with the lock released
RetryTimerDispatchWitness ==
    \E c \in tcall :
        /\ c.task.taskType = "RetryTimer"
        /\ c.task.scheduleAttempt > twf.activity.attempt
        /\ Cardinality(Dispatches(c)) = 2
        /\ \A i \in Dispatches(c) : ~LockHeld(c.lock, i)
        /\ c.handlerErr = Nil
        /\ c.taskID \in acked

\* ----------------------------------------------------------------- C39
\* C39: every release handle obtained from the execution cache is invoked
\* exactly once per acquisition: a handler releases only a lock it holds,
\* and holds none when it returns
ReleasedOncePerAcquisition ==
    \A c \in tcall :
        /\ \A i \in 1..Len(c.lock) :
              c.lock[i].op = "release" => LockHeld(c.lock, i - 1)
        /\ ~LockHeld(c.lock, Len(c.lock))

\* ----------------------------------------------------------------- C40
\* the last commit the call c issued for its pass failed
LastCommitFailed(c) ==
    \E i \in 1..Len(c.trace) :
        /\ c.trace[i].op = "commit"
        /\ c.trace[i].err # Nil
        /\ \A j \in (i + 1)..Len(c.trace) : c.trace[j].op # "commit"

\* the call c returned with a mutation of the in-memory mutable state that
\* no commit made durable: its last commit failed, or the WorkflowTimeout
\* handler appended the timeout event to the running workflow and issued no
\* commit
UncommittedMutation(c) ==
    \/ LastCommitFailed(c)
    \/ /\ c.task.taskType = "WorkflowTimeout"
       /\ Loaded(c)
       /\ c.verified = "ok"
       /\ twf.running
       /\ c.commits = 0

\* C40: whenever a timer handler returns after mutating the in-memory
\* mutable state without a successful commit of the mutation, the release
\* handle is called with a non-nil error
ReleaseInvalidates ==
    \A c \in tcall :
        UncommittedMutation(c) =>
            \E i \in 1..Len(c.lock) : c.lock[i].op = "release" /\ c.lock[i].err # Nil

====
